---- MODULE Spec2Model ----
(***************************************************************************)
(* llm-imager: the retrying HTTP transport (pkg/httputil.Client) and the   *)
(* provider adapters that call it (internal/provider).                     *)
(*                                                                         *)
(* One behaviour is one call: either a direct call of Client.Do with a     *)
(* request of some body kind, or a call of one adapter's Generate, which   *)
(* validates the request, builds the submission POST and hands it to Do.   *)
(* The server, the network and the context's cancellation are the          *)
(* environment: each HTTP attempt ends in an outcome chosen from Outcomes, *)
(* and Cancel may fire at any point of the call.                           *)
(***************************************************************************)
EXTENDS Integers, Sequences, FiniteSets, TLC

(* ---------------------------------------------------------------- bounds *)

\* largest configured maxRetries explored (the default, client.go:26, is 3)
MaxRetriesBound == 3

\* number of bytes of a request body
BodyLen == 2

(* ------------------------------------------------------------- constants *)

DefaultMaxRetries == 3

StatusOK == 200

StatusCreated == 201

StatusTooManyRequests == 429

\* the HTTP statuses the server answers with
Statuses == {200, 201, 404, 429, 503}

\* causes of a transport-level error of httpClient.Do; "ctx" is the error
\* net/http reports when the request's context is cancelled
TransportCauses == {"dial", "context canceled"}

Adapters == {"openai", "google", "openrouter", "stability", "replicate"}

\* callers of Do: an adapter's Generate, or a direct call
Callers == Adapters \cup {"direct"}

\* An error value: its own message kind, the status code it names (0 when
\* none), the kind of the error it wraps with %w ("" when it wraps none) and
\* the kind of the error that one wraps in turn.
NewErr(kind, code, cause) ==
    [kind |-> kind, code |-> code, cause |-> cause, root |-> ""]

\* fmt.Errorf(msg + ": %w", e)
Wrap(msg, e) ==
    [kind |-> msg, code |-> e.code, cause |-> e.kind, root |-> e.cause]

\* the nil error
NoErr == NewErr("nil", 0, "")

\* ctx.Err() of a cancelled context
CtxErr == NewErr("context canceled", 0, "")

\* the *url.Error httpClient.Do returns for a transport failure
TransportErr(cause) == NewErr("url.Error", 0, cause)

\* fmt.Errorf("server error: %d", resp.StatusCode)
ServerErr(status) == NewErr("server error", status, "")

NoResp == [status |-> 0, attempt |-> -1]

(* --------------------------------------------------------- request bodies *)

\* the bytes of a request body, as positions 1..BodyLen
BodyBytes == [i \in 1..BodyLen |-> i]

\* what the body still yields when read from offset off
BodyFrom(off) == SubSeq(BodyBytes, off + 1, BodyLen)

\* http.NewRequestWithContext wraps a *bytes.Reader or *bytes.Buffer body in
\* io.NopCloser: the wrapper has Read and Close only, the reader's Seek is
\* not exported through it
NewRequestWithContext(reader) ==
    IF reader = "nil" THEN "nil" ELSE "nopCloser"

\* the kinds of req.Body a request handed to Do can have:
\*   "nil"            no body (Client.Get)
\*   "nopCloser"      io.NopCloser around the reader (every adapter's POST)
\*   "readSeekCloser" a body that itself implements io.Seeker
BodyKinds == {"nil", "nopCloser", "readSeekCloser"}

\* req.Body.(io.Seeker)
IsSeeker(kind) == kind = "readSeekCloser"

(* ------------------------------------------------------------- requests *)

\* A model identifier is the sequence of its "/"-separated segments:
\* "openai/dall-e-3" is <<"openai", "dall-e-3">>, "dall-e-2" is <<"dall-e-2">>.
ModelIDs == {<<"openai", "dall-e-3">>, <<"dall-e-2">>}

Sizes == {"", "512x512"}

Qualities == {"hd", "ultra"}

Styles == {"", "neon"}

\* Request.Seed, a *int64: nil, or a pointer to val
NilSeed == [nil |-> TRUE, val |-> 0]

SeedOf(v) == [nil |-> FALSE, val |-> v]

\* the prompt of every request
ThePrompt == "a cat"

\* generator.Request, the fields ValidateRequest reads varying
Requests ==
    [Model : ModelIDs, Prompt : {ThePrompt}, Size : Sizes,
     Quality : Qualities, Style : Styles, Count : {1}, Seed : {NilSeed},
     NegativePrompt : {""}, AspectRatio : {""}, Steps : {0}]

\* the largest number of images a request asks for
MaxCount == 2

\* requests that pass every ValidateRequest and ask for 0..MaxCount images
\* (Count is 0 when --count is not given and no default is configured)
CountRequests ==
    [Model : {<<"dall-e-2">>}, Prompt : {ThePrompt}, Size : {""},
     Quality : {"hd"}, Style : {""}, Count : 0..MaxCount, Seed : {NilSeed},
     NegativePrompt : {""}, AspectRatio : {""}, Steps : {0}]

\* the request of a direct call of Do, which no adapter validates
NoRequest ==
    [Model |-> <<>>, Prompt |-> "", Size |-> "", Quality |-> "", Style |-> "",
     Count |-> 0, Seed |-> NilSeed, NegativePrompt |-> "", AspectRatio |-> "",
     Steps |-> 0]

APIKeys == {"", "sk-key"}

ModelDALLE3 == <<"dall-e-3">>

\* strings.TrimPrefix(model, name + "/") when the model has that prefix
extractModelName(name, model) ==
    IF Len(model) > 1 /\ Head(model) = name THEN Tail(model) ELSE model

\* a validation that looks at the size before the credential
OpenAIValidateRequestSizeFirst(key, r) ==
    IF /\ extractModelName("openai", r.Model) = ModelDALLE3
       /\ r.Size # ""
       /\ r.Size \notin {"1024x1024", "1792x1024", "1024x1792"}
    THEN NewErr("invalid size for DALL-E 3", 0, "")
    ELSE IF key = ""
    THEN NewErr("OpenAI API key is required", 0, "")
    ELSE NoErr

\* OpenAI.ValidateRequest: the error it returns, NoErr for nil
OpenAIValidateRequest(key, r) ==
    IF key = ""
    THEN NewErr("OpenAI API key is required", 0, "")
    ELSE IF /\ extractModelName("openai", r.Model) = ModelDALLE3
            /\ r.Size # ""
            /\ r.Size \notin {"1024x1024", "1792x1024", "1024x1792"}
    THEN NewErr("invalid size for DALL-E 3", 0, "")
    ELSE IF /\ r.Quality # ""
            /\ r.Quality \notin {"standard", "hd", "low", "medium", "high"}
    THEN NewErr("invalid quality", 0, "")
    ELSE IF r.Style # "" /\ r.Style # "natural" /\ r.Style # "vivid"
    THEN NewErr("invalid style", 0, "")
    ELSE NoErr

GoogleValidateRequest(key, r) ==
    IF key = "" THEN NewErr("Google API key is required", 0, "") ELSE NoErr

OpenRouterValidateRequest(key, r) ==
    IF key = "" THEN NewErr("OpenRouter API key is required", 0, "") ELSE NoErr

StabilityValidateRequest(key, r) ==
    IF key = "" THEN NewErr("Stability API key is required", 0, "") ELSE NoErr

ReplicateValidateRequest(key, r) ==
    IF key = "" THEN NewErr("Replicate API token is required", 0, "") ELSE NoErr

\* Provider.ValidateRequest, dispatched on the adapter
ValidateRequest(a, key, r) ==
    CASE a = "openai"     -> OpenAIValidateRequest(key, r)
      [] a = "google"     -> GoogleValidateRequest(key, r)
      [] a = "openrouter" -> OpenRouterValidateRequest(key, r)
      [] a = "stability"  -> StabilityValidateRequest(key, r)
      [] a = "replicate"  -> ReplicateValidateRequest(key, r)

\* the reader each adapter's Generate passes to http.NewRequestWithContext:
\* bytes.NewReader(body) over the marshalled JSON, or Stability's
\* bytes.Buffer holding the multipart form
SubmissionReader(a) ==
    IF a = "stability" THEN "bytes.Buffer" ELSE "bytes.Reader"

\* the statuses an adapter's Generate accepts
AcceptedStatuses(a) ==
    IF a = "replicate" THEN {StatusOK, StatusCreated} ELSE {StatusOK}

(* ------------------------------------------------------ backend replies *)

\* the most image entries a reply holds
MaxItems == 2

\* An image entry of a reply is "ok" when its image can be had (base64 that
\* decodes, a data URL that parses, a URL that downloads) and "bad" when the
\* attempt to get it fails.
ItemKinds == {"ok", "bad"}

ItemLists == UNION { [1..n -> ItemKinds] : n \in 0..MaxItems }

\* The body of the backend's reply, as far as Generate looks at it:
\*   json     it parses as JSON
\*   errMsg   it has the backend's error message (OpenAI, Gemini, OpenRouter:
\*            error.message; Stability: message)
\*   items    its image entries (OpenAI: data; Gemini: the parts with
\*            inlineData; OpenRouter: message.images; Replicate: output)
\*   content  OpenRouter's image entries in message.content
\*   job      Replicate's prediction status
\*   ctype    the media type of its images: the Content-Type header of the
\*            reply (Stability) or of the download (OpenRouter, Replicate),
\*            the mimeType of an inline part (Gemini), the head of a data URL
\* A body that does not parse has no message and no entries.
NotJSON ==
    [json |-> FALSE, errMsg |-> FALSE, items |-> << >>, content |-> << >>,
     job |-> "succeeded", ctype |-> "image/png"]

\* a reply with one image and nothing else
OneImage ==
    [json |-> TRUE, errMsg |-> FALSE, items |-> <<"ok">>, content |-> << >>,
     job |-> "succeeded", ctype |-> "image/png"]

\* media types a backend names
MediaTypes == {"image/png", "image/jpeg", "image/webp", ""}

\* strings.Contains(contentType, "jpeg"), "webp", "png" on those
ContainsJpeg(ctype) == ctype = "image/jpeg"

ContainsWebp(ctype) == ctype = "image/webp"

ContainsPng(ctype) == ctype = "image/png"

\* a sniffing that knows no webp
SniffFormatNoWebp(ctype) ==
    IF ContainsJpeg(ctype) THEN "jpeg" ELSE "png"

\* format := "png"; "jpeg" or "webp" when the media type contains it
\* (Stability, Gemini, OpenRouter)
SniffFormat(ctype) ==
    IF ContainsJpeg(ctype) THEN "jpeg"
    ELSE IF ContainsWebp(ctype) THEN "webp"
    ELSE "png"

\* Replicate.downloadImage: format := "webp"; "png" or "jpeg" when the
\* Content-Type contains it
ReplicateFormat(ctype) ==
    IF ContainsPng(ctype) THEN "png"
    ELSE IF ContainsJpeg(ctype) THEN "jpeg"
    ELSE "webp"

\* the media types looked at per adapter
CTypes(a) == IF a = "stability" THEN MediaTypes ELSE {"image/png"}

\* Stability's reply is the image itself: it has no list of entries
ItemListsOf(a) == IF a = "stability" THEN {<< >>} ELSE ItemLists

ContentLists(a) ==
    IF a = "openrouter" THEN {<< >>, <<"ok">>, <<"bad">>} ELSE {<< >>}

JobStatuses(a) ==
    IF a = "replicate" THEN {"succeeded", "failed", "processing"}
    ELSE {"succeeded"}

\* the replies adapter a's backend may give
Replies(a) ==
    {[NotJSON EXCEPT !.ctype = c] : c \in CTypes(a)} \cup
    [json : {TRUE}, errMsg : BOOLEAN, items : ItemListsOf(a),
     content : ContentLists(a), job : JobStatuses(a), ctype : CTypes(a)]

\* no revised prompt
NoPrompt == -1

\* the revised_prompt field of the entry at position pos of data: the
\* entries' prompts are told apart by the position
RevisedPromptOf(pos) == pos

\* what Generate returns: the Response (or nil), Response.Images,
\* Response.RevisedPrompt, the error
Failed(err) ==
    [resp |-> "nil", images |-> << >>, revisedPrompt |-> NoPrompt, err |-> err]

Response(images, revised) ==
    [resp |-> "response", images |-> images, revisedPrompt |-> revised,
     err |-> NoErr]

\* generator.Image: Index, Format, and Data as the place the bytes come
\* from: the entry at position pos (from 0) of the list from, or the whole
\* body of the reply
Image(index, format, from, pos) ==
    [index |-> index, format |-> format, data |-> [from |-> from, pos |-> pos]]

\* the positions, counted from 0, of the entries of items that are "ok"
OkIndexes(items) ==
    SelectSeq([i \in 1..Len(items) |-> i - 1], LAMBDA i : items[i + 1] = "ok")

AllIndexes(items) == [i \in 1..Len(items) |-> i - 1]

HasBad(items) == \E i \in 1..Len(items) : items[i] = "bad"

\* for i, x := range list { images = append(images, Image{Data: x's
\* bytes, Format: format, Index: i}) } over the positions ps
ImagesAt(ps, from, format) ==
    [k \in 1..Len(ps) |-> Image(ps[k], format, from, ps[k])]

\* an OpenAI.Generate that takes the revised prompt of the last entry
OpenAIReceiveLastPrompt(status, r) ==
    IF status # StatusOK
    THEN IF r.json /\ r.errMsg
         THEN Failed(NewErr("API error: message", 0, ""))
         ELSE Failed(NewErr("API error: status", status, ""))
    ELSE IF ~r.json
    THEN Failed(NewErr("failed to decode response", 0, ""))
    ELSE IF HasBad(r.items)
    THEN Failed(NewErr("failed to decode image", 0, ""))
    ELSE Response(ImagesAt(AllIndexes(r.items), "data", "png"),
                  IF Len(r.items) > 0
                  THEN RevisedPromptOf(Len(r.items) - 1) ELSE NoPrompt)

\* OpenAI.Generate from the response of Do on
OpenAIReceive(status, r) ==
    IF status # StatusOK
    THEN IF r.json /\ r.errMsg
         THEN Failed(NewErr("API error: message", 0, ""))
         ELSE Failed(NewErr("API error: status", status, ""))
    ELSE IF ~r.json
    THEN Failed(NewErr("failed to decode response", 0, ""))
    ELSE IF HasBad(r.items)
    THEN Failed(NewErr("failed to decode image", 0, ""))
    ELSE Response(ImagesAt(AllIndexes(r.items), "data", "png"),
                  IF Len(r.items) > 0 THEN RevisedPromptOf(0) ELSE NoPrompt)

\* Google.Generate from the response of Do on: the body is decoded before
\* the status is looked at, a part that does not decode is skipped
GoogleReceive(status, r) ==
    IF ~r.json
    THEN Failed(NewErr("failed to decode response", 0, ""))
    ELSE IF r.errMsg
    THEN Failed(NewErr("API error: message", 0, ""))
    ELSE IF status # StatusOK
    THEN Failed(NewErr("API error: status", status, ""))
    ELSE IF OkIndexes(r.items) = << >>
    THEN Failed(NewErr("no images generated", 0, ""))
    ELSE Response(ImagesAt(OkIndexes(r.items), "parts", SniffFormat(r.ctype)),
                  NoPrompt)

\* the images OpenRouter.Generate collects: those of message.images, then
\* those of message.content it can get
OpenRouterImages(r) ==
    ImagesAt(AllIndexes(r.items), "images", SniffFormat(r.ctype))
    \o ImagesAt(OkIndexes(r.content), "content", SniffFormat(r.ctype))

\* an OpenRouter.Generate that scans message.content first
OpenRouterReceiveContentFirst(status, r) ==
    IF status # StatusOK
    THEN IF r.json /\ r.errMsg
         THEN Failed(NewErr("API error: message", 0, ""))
         ELSE Failed(NewErr("API error: status, body", status, ""))
    ELSE IF ~r.json
    THEN Failed(NewErr("failed to decode response", 0, ""))
    ELSE IF HasBad(r.items)
    THEN Failed(NewErr("failed to get image", 0, ""))
    ELSE IF OpenRouterImages(r) = << >>
    THEN Failed(NewErr("no images in response", 0, ""))
    ELSE Response(ImagesAt(OkIndexes(r.content), "content", SniffFormat(r.ctype))
                  \o ImagesAt(AllIndexes(r.items), "images", SniffFormat(r.ctype)),
                  NoPrompt)

\* OpenRouter.Generate from the response of Do on: an entry of
\* message.images that cannot be had ends the call, one of message.content
\* is skipped
OpenRouterReceive(status, r) ==
    IF status # StatusOK
    THEN IF r.json /\ r.errMsg
         THEN Failed(NewErr("API error: message", 0, ""))
         ELSE Failed(NewErr("API error: status, body", status, ""))
    ELSE IF ~r.json
    THEN Failed(NewErr("failed to decode response", 0, ""))
    ELSE IF HasBad(r.items)
    THEN Failed(NewErr("failed to get image", 0, ""))
    ELSE IF OpenRouterImages(r) = << >>
    THEN Failed(NewErr("no images in response", 0, ""))
    ELSE Response(OpenRouterImages(r), NoPrompt)

\* a Stability.Generate that does not know webp
StabilityReceiveNoWebp(status, r) ==
    IF status # StatusOK
    THEN IF r.json /\ r.errMsg
         THEN Failed(NewErr("API error: message", 0, ""))
         ELSE Failed(NewErr("API error: status", status, ""))
    ELSE Response(<<Image(0, SniffFormatNoWebp(r.ctype), "body", 0)>>, NoPrompt)

\* Stability.Generate from the response of Do on: the body of a 200 is the
\* one image
StabilityReceive(status, r) ==
    IF status # StatusOK
    THEN IF r.json /\ r.errMsg
         THEN Failed(NewErr("API error: message", 0, ""))
         ELSE Failed(NewErr("API error: status", status, ""))
    ELSE Response(<<Image(0, SniffFormat(r.ctype), "body", 0)>>, NoPrompt)

\* how the polling of a prediction that is not finished yet can end
PollOutcomes == {"succeeded", "failed", "error"}

\* Replicate.Generate from the response of Do on; polled is how the polling
\* ends when the prediction is not finished, ctxDone whether ctx.Done() is
\* closed when the polling begins
ReplicateReceive(status, r, polled, ctxDone) ==
    IF status \notin {StatusOK, StatusCreated}
    THEN Failed(NewErr("API error: status, body", status, ""))
    ELSE IF ~r.json
    THEN Failed(NewErr("failed to decode response", 0, ""))
    ELSE IF r.job = "processing" /\ ctxDone
    THEN Failed(CtxErr)
    ELSE IF r.job = "processing" /\ polled = "error"
    THEN Failed(NewErr("getPrediction error", 0, ""))
    ELSE IF r.job = "failed" \/ (r.job = "processing" /\ polled = "failed")
    THEN Failed(NewErr("Replicate generation failed", 0, ""))
    ELSE IF r.items = << >>
    THEN Failed(NewErr("no images in response", 0, ""))
    ELSE IF HasBad(r.items)
    THEN Failed(NewErr("failed to download image", 0, ""))
    ELSE Response(ImagesAt(AllIndexes(r.items), "output",
                           ReplicateFormat(r.ctype)), NoPrompt)

\* Provider.Generate from the response of Do on, dispatched on the adapter
Receive(a, status, r, polled, ctxDone) ==
    CASE a = "openai"     -> OpenAIReceive(status, r)
      [] a = "google"     -> GoogleReceive(status, r)
      [] a = "openrouter" -> OpenRouterReceive(status, r)
      [] a = "stability"  -> StabilityReceive(status, r)
      [] a = "replicate"  -> ReplicateReceive(status, r, polled, ctxDone)

(* -------------------------------------------------------------- registry *)

\* A Provider value, as far as the registry looks at it: what Name() and
\* SupportedModels() return, and id to tell one value from another.
\*   1  the OpenAI adapter
\*   2  the OpenRouter adapter, with two of its models
\*   3  another Provider whose Name() is "openai" as well
\*   4  a Provider that advertises an ID of the OpenAI adapter and an ID
\*      without a provider prefix
Pool ==
    { [id |-> 1, name |-> "openai",
       models |-> << <<"openai", "dall-e-3">>, <<"openai", "dall-e-2">>,
                     <<"openai", "gpt-image-1">> >>],
      [id |-> 2, name |-> "openrouter",
       models |-> << <<"openrouter", "google", "gemini-2.5-flash-image">>,
                     <<"openrouter", "openai", "gpt-5-image">> >>],
      [id |-> 3, name |-> "openai",
       models |-> << <<"openai", "dall-e-3">>, <<"openai", "dall-e-4">> >>],
      [id |-> 4, name |-> "mirror",
       models |-> << <<"openai", "dall-e-3">>, <<"sdxl">> >>] }

\* the names GetByName is asked for
NameQueries ==
    {"openai", "OpenAI", "OPENAI", "openrouter", "OpenRouter",
     "mirror", "Mirror", "nobody"}

\* the model identifiers GetByModel is asked for
ModelQueries ==
    { <<"openai", "dall-e-3">>, <<"openai", "no-such", "model">>,
      <<"openrouter", "openai", "gpt-5-image">>, <<"OpenAI", "dall-e-3">>,
      <<"nobody", "model">>, <<"dall-e-3">>, <<"sdxl">>, <<"no-such">> }

\* strings.ToLower on the names asked for
ToLower(name) ==
    CASE name \in {"openai", "OpenAI", "OPENAI"} -> "openai"
      [] name \in {"openrouter", "OpenRouter"}   -> "openrouter"
      [] name \in {"mirror", "Mirror"}           -> "mirror"
      [] OTHER                                   -> name

\* NewRegistry(): both maps empty
EmptyMap == << >>

\* m[k] = v on a Go map
MapPut(m, k, v) ==
    [x \in DOMAIN m \cup {k} |-> IF x = k THEN v ELSE m[x]]

\* for _, model := range p.SupportedModels() { r.models[model.ID] = name }
RECURSIVE IndexModels(_, _, _)
IndexModels(ms, name, ids) ==
    IF ids = << >> THEN ms
    ELSE IndexModels(MapPut(ms, Head(ids), name), name, Tail(ids))

\* a Register that indexes the models before it looks for the name
RegisterIndexFirst(ps, ms, p) ==
    IF p.name \in DOMAIN ps
    THEN [providers |-> ps, models |-> IndexModels(ms, p.name, p.models),
          err |-> NewErr("provider already registered", 0, p.name)]
    ELSE [providers |-> MapPut(ps, p.name, p),
          models |-> IndexModels(ms, p.name, p.models),
          err |-> NoErr]

\* a Register that indexes the models and does not store the provider
RegisterIndexOnly(ps, ms, p) ==
    IF p.name \in DOMAIN ps
    THEN [providers |-> ps, models |-> ms,
          err |-> NewErr("provider already registered", 0, p.name)]
    ELSE [providers |-> ps,
          models |-> IndexModels(ms, p.name, p.models),
          err |-> NoErr]

\* a Register that leaves the index entries of other providers as they are
RegisterKeepFirst(ps, ms, p) ==
    IF p.name \in DOMAIN ps
    THEN [providers |-> ps, models |-> ms,
          err |-> NewErr("provider already registered", 0, p.name)]
    ELSE [providers |-> MapPut(ps, p.name, p),
          models |-> [x \in DOMAIN ms \cup {p.models[i] : i \in 1..Len(p.models)} |->
                         IF x \in DOMAIN ms THEN ms[x] ELSE p.name],
          err |-> NoErr]

\* Registry.Register on the maps ps (providers) and ms (models): the maps
\* after the call and the error returned
Register(ps, ms, p) ==
    IF p.name \in DOMAIN ps
    THEN [providers |-> ps, models |-> ms,
          err |-> NewErr("provider already registered", 0, p.name)]
    ELSE [providers |-> MapPut(ps, p.name, p),
          models |-> IndexModels(ms, p.name, p.models),
          err |-> NoErr]

\* a nil Provider
NilProvider == 0

\* a GetByName that looks the name up as it was given
GetByNameExact(ps, name) ==
    IF name \in DOMAIN ps
    THEN [res |-> ps[name].id, err |-> NoErr]
    ELSE [res |-> NilProvider, err |-> NewErr("provider not found", 0, name)]

\* Registry.GetByName: the id of the Provider returned, and the error
GetByName(ps, name) ==
    IF ToLower(name) \in DOMAIN ps
    THEN [res |-> ps[ToLower(name)].id, err |-> NoErr]
    ELSE [res |-> NilProvider, err |-> NewErr("provider not found", 0, name)]

\* r.providers[providerName] for a name taken from the model index: nil
\* when the map has no such key
ProviderOrNil(ps, name) ==
    IF name \in DOMAIN ps THEN ps[name].id ELSE NilProvider

\* a GetByModel that asks the model index before it tries the prefix
GetByModelIndexFirst(ps, ms, modelID) ==
    IF modelID \in DOMAIN ms
    THEN [res |-> ProviderOrNil(ps, ms[modelID]), err |-> NoErr]
    ELSE IF Len(modelID) > 1 /\ Head(modelID) \in DOMAIN ps
    THEN [res |-> ps[Head(modelID)].id, err |-> NoErr]
    ELSE [res |-> NilProvider,
          err |-> NewErr("no provider found for model", 0, "")]

\* a GetByModel that falls back to the only registered provider
GetByModelFallback(ps, ms, modelID) ==
    IF Len(modelID) > 1 /\ Head(modelID) \in DOMAIN ps
    THEN [res |-> ps[Head(modelID)].id, err |-> NoErr]
    ELSE IF modelID \in DOMAIN ms
    THEN [res |-> ProviderOrNil(ps, ms[modelID]), err |-> NoErr]
    ELSE IF Cardinality(DOMAIN ps) = 1
    THEN [res |-> (CHOOSE p \in Pool : p.name \in DOMAIN ps /\ ps[p.name] = p).id,
          err |-> NoErr]
    ELSE [res |-> NilProvider,
          err |-> NewErr("no provider found for model", 0, "")]

\* Registry.GetByModel: strings.Contains(modelID, "/") is Len(modelID) > 1
\* and strings.SplitN(modelID, "/", 2)[0] is Head(modelID)
GetByModel(ps, ms, modelID) ==
    IF Len(modelID) > 1 /\ Head(modelID) \in DOMAIN ps
    THEN [res |-> ps[Head(modelID)].id, err |-> NoErr]
    ELSE IF modelID \in DOMAIN ms
    THEN [res |-> ProviderOrNil(ps, ms[modelID]), err |-> NoErr]
    ELSE [res |-> NilProvider,
          err |-> NewErr("no provider found for model", 0, "")]

(* ------------------------------------------------------ the command line *)

\* the largest seed given on a command line
MaxSeed == 1

SeedValues == 0..MaxSeed

\* a flag as pflag keeps it: whether the command line set it, and the value
\* of its variable (the flag's default when the command line did not set it)
Flag(changed, value) == [changed |-> changed, value |-> value]

NotGiven(default) == Flag(FALSE, default)

\* a command line without flags
NoFlags ==
    [model |-> NotGiven(<< >>), prompt |-> NotGiven(""),
     size |-> NotGiven(""), quality |-> NotGiven(""), style |-> NotGiven(""),
     count |-> NotGiven(0), seed |-> NotGiven(0),
     negativePrompt |-> NotGiven(""), aspectRatio |-> NotGiven(""),
     steps |-> NotGiven(0), providerName |-> NotGiven(""),
     dryRun |-> NotGiven(FALSE)]

\* the command lines that lead to adapter a, one of those that encode a
\* seed: --prompt given, and --provider a or --model a/sdxl or both; every
\* other flag given or not, with the defaults of the flags as declared
CommandLines(a) ==
    { f \in
        [model          : {NotGiven(<< >>), Flag(TRUE, <<a, "sdxl">>)},
         prompt         : {Flag(TRUE, ThePrompt)},
         size           : {NotGiven(""), Flag(TRUE, "512x512")},
         quality        : {NotGiven("")},
         style          : {NotGiven("")},
         count          : {NotGiven(0), Flag(TRUE, 2)},
         seed           : {NotGiven(0)} \cup {Flag(TRUE, v) : v \in SeedValues},
         negativePrompt : {NotGiven(""), Flag(TRUE, "blurry")},
         aspectRatio    : {NotGiven(""), Flag(TRUE, "16:9")},
         steps          : {NotGiven(0), Flag(TRUE, 30)},
         providerName   : {NotGiven(""), Flag(TRUE, a)},
         dryRun         : {NotGiven(FALSE), Flag(TRUE, TRUE)}] :
      f.providerName.changed \/ f.model.changed }

\* cfg.Defaults as setDefaults leaves it
SetDefaults ==
    [Model |-> <<"openai", "dall-e-3">>, Size |-> "1024x1024",
     Quality |-> "standard", Style |-> "natural", Count |-> 1,
     AspectRatio |-> "1:1", DryRun |-> FALSE, Provider |-> ""]

\* cfg.Defaults: as setDefaults leaves it, or with a configuration file that
\* empties aspect_ratio, sets provider, sets dry_run
Configs ==
    { [SetDefaults EXCEPT !.AspectRatio = ar, !.Provider = pr, !.DryRun = dr] :
        ar \in {"1:1", ""}, pr \in {"", "replicate"}, dr \in BOOLEAN }

\* generateOptions before the flags are parsed
NoOptions ==
    [model |-> << >>, prompt |-> "", size |-> "", quality |-> "",
     style |-> "", count |-> 0, seed |-> 0, hasSeed |-> FALSE,
     negativePrompt |-> "", aspectRatio |-> "", steps |-> 0,
     providerName |-> "", dryRun |-> FALSE, hasDryRun |-> FALSE]

\* generateOptions when RunE calls runGenerate: every flag's variable, and
\* hasSeed = cmd.Flags().Changed("seed"), hasDryRun likewise
ParseFlags(f) ==
    [model |-> f.model.value, prompt |-> f.prompt.value,
     size |-> f.size.value, quality |-> f.quality.value,
     style |-> f.style.value, count |-> f.count.value,
     seed |-> f.seed.value, hasSeed |-> f.seed.changed,
     negativePrompt |-> f.negativePrompt.value,
     aspectRatio |-> f.aspectRatio.value, steps |-> f.steps.value,
     providerName |-> f.providerName.value, dryRun |-> f.dryRun.value,
     hasDryRun |-> f.dryRun.changed]

\* applyDefaults(opts) under cfg.Defaults = d
applyDefaults(o, d) ==
    [o EXCEPT
       !.model = IF o.model = << >> THEN d.Model ELSE @,
       !.size = IF o.size = "" /\ d.Size # "" THEN d.Size ELSE @,
       !.quality = IF o.quality = "" /\ d.Quality # "" THEN d.Quality ELSE @,
       !.style = IF o.style = "" /\ d.Style # "" THEN d.Style ELSE @,
       !.count = IF o.count = 0 THEN d.Count ELSE @,
       !.aspectRatio = IF o.aspectRatio = "" /\ d.AspectRatio # ""
                       THEN d.AspectRatio ELSE @,
       !.dryRun = IF ~o.hasDryRun /\ d.DryRun THEN TRUE ELSE @]

\* a request whose seed pointer is set whenever opts.seed is not zero
BuildRequestSeedNonZero(o) ==
    [Model |-> o.model, Prompt |-> o.prompt, Size |-> o.size,
     Quality |-> o.quality, Style |-> o.style, Count |-> o.count,
     Seed |-> IF o.seed # 0 THEN SeedOf(o.seed) ELSE NilSeed,
     NegativePrompt |-> o.negativePrompt, AspectRatio |-> o.aspectRatio,
     Steps |-> o.steps]

\* runGenerate: seedPtr and the generator.Request built from opts
BuildRequest(o) ==
    [Model |-> o.model, Prompt |-> o.prompt, Size |-> o.size,
     Quality |-> o.quality, Style |-> o.style, Count |-> o.count,
     Seed |-> IF o.hasSeed THEN SeedOf(o.seed) ELSE NilSeed,
     NegativePrompt |-> o.negativePrompt, AspectRatio |-> o.aspectRatio,
     Steps |-> o.steps]

Digits == <<"0", "1", "2", "3", "4", "5", "6", "7", "8", "9">>

\* the decimal text of a natural number
RECURSIVE FormatNat(_)
FormatNat(n) ==
    IF n < 10 THEN Digits[n + 1]
    ELSE FormatNat(n \div 10) \o Digits[(n % 10) + 1]

\* fmt.Sprintf("%d", n), which is also how json.Marshal writes an integer
FormatInt(n) == IF n < 0 THEN "-" \o FormatNat(-n) ELSE FormatNat(n)

\* a field of an outbound request: left out, or written with a text
Absent == [present |-> FALSE, text |-> ""]

Field(text) == [present |-> TRUE, text |-> text]

\* no request was encoded
NoOutbound ==
    [to |-> "none", prompt |-> Absent, negative_prompt |-> Absent,
     aspect_ratio |-> Absent, seed |-> Absent,
     num_inference_steps |-> Absent, output_format |-> Absent]

\* Stability.Generate: the fields of the multipart form
StabilityForm(r) ==
    [to |-> "stability",
     prompt |-> Field(r.Prompt),
     negative_prompt |-> IF r.NegativePrompt # ""
                         THEN Field(r.NegativePrompt) ELSE Absent,
     aspect_ratio |-> IF r.AspectRatio # ""
                      THEN Field(r.AspectRatio) ELSE Absent,
     seed |-> IF ~r.Seed.nil THEN Field(FormatInt(r.Seed.val)) ELSE Absent,
     num_inference_steps |-> Absent,
     output_format |-> Field("png")]

\* Replicate.Generate: the input map of the prediction request
ReplicateInput(r) ==
    [to |-> "replicate",
     prompt |-> Field(r.Prompt),
     negative_prompt |-> IF r.NegativePrompt # ""
                         THEN Field(r.NegativePrompt) ELSE Absent,
     aspect_ratio |-> IF r.AspectRatio # ""
                      THEN Field(r.AspectRatio) ELSE Absent,
     seed |-> IF ~r.Seed.nil THEN Field(FormatInt(r.Seed.val)) ELSE Absent,
     num_inference_steps |-> IF r.Steps > 0
                             THEN Field(FormatInt(r.Steps)) ELSE Absent,
     output_format |-> Absent]

\* runGenerate's choice of p: the placeholder provider under dry-run, else
\* registry.GetByName(opts.providerName) when a name is given, else
\* registry.GetByModel(opts.model), the registry holding every adapter under
\* its name, so that the prefix of the model decides
SelectProvider(o) ==
    IF o.dryRun THEN "dryrun"
    ELSE IF o.providerName # "" THEN o.providerName
    ELSE Head(o.model)

\* the adapters that send a seed
SeedAdapters == {"stability", "replicate"}

\* the request adapter a encodes for r
Encode(a, r) == IF a = "stability" THEN StabilityForm(r) ELSE ReplicateInput(r)

(* ------------------------------------------------------- Replicate's job *)

\* status fetches one Generate makes
MaxPolls == 2

\* entries of a prediction's output list
MaxOutputs == 2

\* time.After(2 * time.Second), in seconds
PollInterval == 2

\* the URLs a prediction's output names
URLs == {"u1", "u2"}

\* the URLs a prediction gives as urls.get
StatusURLs == {"get/1", "get/2"}

\* a JSON string in an output
Str(u) == [isString |-> TRUE, s |-> u]

\* a JSON value in an output list that is no string
NotStr == [isString |-> FALSE, s |-> ""]

Elements == {Str(u) : u \in URLs} \cup {NotStr}

OutputLists == UNION { [1..n -> Elements] : n \in 0..MaxOutputs }

\* prediction.Output when it is neither a string nor a list
NoOutput == [kind |-> "none", list |-> << >>]

\* prediction.Output: nothing, one string, or a list
Outputs ==
    {NoOutput} \cup
    {[kind |-> "string", list |-> <<Str(u)>>] : u \in URLs} \cup
    {[kind |-> "list", list |-> l] : l \in OutputLists}

\* replicatePrediction
Prediction(status, output, error, get) ==
    [status |-> status, output |-> output, error |-> error, get |-> get]

\* replicatePrediction{}, which is also what a JSON body without the fields
\* of a prediction decodes to
NoPrediction == Prediction("", NoOutput, "", "")

\* the statuses of a prediction that is still running
PendingStatuses == {"starting", "processing"}

\* the job records the backend answers with: running ones (one of them with
\* an output already), failed ones with and without error text and output,
\* succeeded ones with every output
PredictionRecords ==
    {Prediction("starting", NoOutput, "", "get/1"),
     Prediction("processing", NoOutput, "", "get/2")} \cup
    {Prediction("processing", [kind |-> "string", list |-> <<Str("u1")>>],
                "", "get/1")} \cup
    {Prediction("failed", NoOutput, e, "get/1") : e \in {"", "out of memory"}} \cup
    {Prediction("failed", [kind |-> "string", list |-> <<Str("u1")>>],
                "out of memory", "get/1")} \cup
    {Prediction("succeeded", o, "", "get/1") : o \in Outputs}

\* the loop condition negated: the status is "succeeded" or "failed"
Terminal(status) == status = "succeeded" \/ status = "failed"

\* a loop that goes on only while the status is "starting"
AfterRecordStartingOnly(p) == IF p.status # "starting" THEN "extract" ELSE "wait"

\* where Generate goes with job record p: out of the loop, or into the select
AfterRecord(p) == IF Terminal(p.status) THEN "extract" ELSE "wait"

\* imageURLs: the output if it is a string, its string entries if it is a list
ImageURLs(output) ==
    CASE output.kind = "string" -> <<output.list[1].s>>
      [] output.kind = "list" ->
            LET strs == SelectSeq(output.list, LAMBDA e : e.isString)
            IN  [k \in 1..Len(strs) |-> strs[k].s]
      [] OTHER -> << >>

\* fmt.Errorf(msg + ": %s", text): the text stands where the message of a
\* wrapped error would
WithText(msg, text) == NewErr(msg, 0, text)

\* what Client.Do returns when it returns an error
DoErrors == {CtxErr, Wrap("max retries exceeded", ServerErr(503))}

\* one entry of the log of what Generate did on the network and the clock:
\* op is "submit", "wait", "fetch" or "download"; url what it asked for;
\* secs how long it waited; got the job record it decoded; ok whether it
\* returned without error; status the status of the response Client.Do
\* returned (0 when it returned none)
Event(op, url, secs, got, ok, status) ==
    [op |-> op, url |-> url, secs |-> secs, got |-> got, ok |-> ok,
     status |-> status]

\* a status no adapter takes for success and Client.Do does not retry
StatusNotFound == 404

\* the status of the reply that carries job record p: with "Prefer: wait" the
\* backend answers 200 for a finished job and 201 for one still running
SubmitStatus(p) == IF Terminal(p.status) THEN StatusOK ELSE StatusCreated

\* the media types a download is answered with
DownloadTypes == {"image/png", ""}

\* the responses a download gets: the image, or an error page
DownloadReplies ==
    {[status |-> StatusOK, ctype |-> c] : c \in DownloadTypes} \cup
    {[status |-> StatusNotFound, ctype |-> "text/html"]}

(* ------------------------------------------- provider settings and clients *)

\* NewClient: http.Client{Timeout: 60 * time.Second}, in seconds
DefaultTimeout == 60

\* cfg.Providers as setDefaults leaves it: timeout in seconds, max_retries,
\* enabled
ProviderDefaults ==
    [a \in Adapters |->
        [Timeout |-> CASE a = "openai" -> 60
                       [] a = "google" -> 60
                       [] a = "stability" -> 120
                       [] a = "replicate" -> 300
                       [] a = "openrouter" -> 120,
         MaxRetries |-> DefaultMaxRetries,
         Enabled |-> TRUE]]

\* cfg.Providers: the defaults, or a configuration that sets the fields of
\* the openai and the replicate provider
ProviderSettings ==
    { [ProviderDefaults EXCEPT !["openai"] = o, !["replicate"] = r] :
        o \in [Timeout : {60, 120}, MaxRetries : {DefaultMaxRetries},
               Enabled : BOOLEAN],
        r \in [Timeout : {300, 600}, MaxRetries : {-1, 0, DefaultMaxRetries},
               Enabled : BOOLEAN] }

\* no adapter was constructed for the provider
NoClient == [built |-> FALSE, timeout |-> 0, maxRetries |-> 0]

\* httputil.NewClient(httputil.WithRetries(retries)): the timeout NewClient
\* sets, no option changing it
NewClient(retries) ==
    [built |-> TRUE, timeout |-> DefaultTimeout, maxRetries |-> retries]

\* initProviders: for each enabled provider the adapter's constructor, which
\* passes ProviderConfig.MaxRetries to the client and nothing else of the
\* provider's settings
BuildClient(ps) == IF ps.Enabled THEN NewClient(ps.MaxRetries) ELSE NoClient

\* seconds a backend takes to answer a request
Durations == {30, 90, 200, 400}

\* no request was made
NoExchange == [adapter |-> "none", took |-> 0, outcome |-> "none"]

\* http.Client.Timeout: a request that takes longer than the timeout fails
\* with a deadline error
Outcome(client, took) ==
    IF took > client.timeout THEN "deadline exceeded" ELSE "answered"

(* ----------------------------------------------------------------- state *)

VARIABLES
    caller,      \* who runs: an adapter (its Generate) or "direct" (Do alone)
    apiKey,      \* the adapter's apiKey
    req,         \* the generator.Request passed to Generate
    maxRetries,  \* Client.maxRetries
    reply,       \* the body the backend answers with
    body,        \* kind of req.Body of the *http.Request handed to Do
    pc,          \* "idle", "backoff", "inflight", "returned", "done"
    attempt,     \* Do's loop variable
    lastErr,     \* Do's lastErr
    cancelled,   \* ctx.Done() is closed
    cancelAt,    \* where the call was when ctx was cancelled
    offset,      \* read offset of the request body
    sent,        \* per httpClient.Do call: the body it carries, the wait before it
    hist,        \* per finished httpClient.Do call: its outcome, who closed
                 \* the response body, where it left the request body
    waited,      \* seconds spent in backoff timers that fired
    doResult,    \* what Do returned
    genResult,   \* what Generate returned
    providers,   \* Registry.providers: provider name -> Provider
    models,      \* Registry.models: model ID -> provider name
    lastOp,      \* the last call on the registry and what it returned
    nops,        \* number of calls made on the registry
    flags,       \* the flags of the command line
    cfg,         \* cfg.Defaults
    opts,        \* the command's generateOptions
    outbound,    \* the request the adapter encoded
    prediction,  \* Replicate.Generate's prediction: the latest job record
    imageURLs,   \* Replicate.Generate's imageURLs
    images,      \* Replicate.Generate's images
    events,      \* what Replicate.Generate did on the network and the clock
    settings,    \* cfg.Providers
    clients,     \* per provider: the httputil.Client of its adapter
    exchange,    \* the last request an adapter's http.Client carried
    mu,          \* Registry.mu: held by a writer, and the number of readers
    writer,      \* the goroutine that calls Register: where it is, with what
    readers,     \* per goroutine that looks up: where it is, what it read
    committed    \* the registry as it was whenever no Register call held mu

\* the registry
regVars == <<providers, models, lastOp, nops>>

\* one run of Do or Generate
runVars == <<body, pc, attempt, lastErr, cancelled, cancelAt, offset, sent,
             hist, waited, doResult, genResult>>

\* the command
cmdVars == <<flags, cfg, opts, outbound>>

\* Replicate.Generate's locals and its log
jobVars == <<prediction, imageURLs, images, events>>

\* the provider settings and the clients built from them
confVars == <<settings, clients, exchange>>

\* the registry's lock and the goroutines that share the registry
lockVars == <<mu, writer, readers, committed>>

vars == <<caller, apiKey, req, maxRetries, reply, body, pc, attempt,
          lastErr, cancelled, cancelAt, offset, sent, hist, waited, doResult,
          genResult, providers, models, lastOp, nops, flags, cfg, opts,
          outbound, prediction, imageURLs, images, events, settings,
          clients, exchange, mu, writer, readers, committed>>

\* what a run of Do or Generate never writes: its configuration, its request,
\* the registry, the command and Replicate's job
callVars ==
    <<caller, apiKey, req, maxRetries, reply, regVars, cmdVars, jobVars,
      confVars, lockVars>>

\* lastOp before any call
NoOp ==
    [op |-> "none", name |-> "", model |-> << >>, pid |-> 0,
     res |-> NilProvider, err |-> NoErr, problem |-> FALSE]

\* NewRegistry()
NewRegistry ==
    /\ providers = EmptyMap
    /\ models = EmptyMap
    /\ lastOp = NoOp
    /\ nops = 0

\* no command was run
NoCommand ==
    /\ flags = NoFlags
    /\ cfg = SetDefaults
    /\ opts = NoOptions
    /\ outbound = NoOutbound

\* no provider was set up
NoClients ==
    /\ settings = ProviderDefaults
    /\ clients = [a \in Adapters |-> NoClient]
    /\ exchange = NoExchange

\* Register calls made by the goroutine that registers
MaxRegisters == 1

\* goroutines that look things up while it does
MaxReaders == 1

Readers == 1..MaxReaders

\* the four methods that take the read lock
Lookups == {"GetByName", "GetByModel", "ListProviders", "ListModels"}

\* a sync.RWMutex nobody holds
Unlocked == [writer |-> FALSE, readers |-> 0]

\* no Provider handed to Register
NoProvider == [id |-> NilProvider, name |-> "", models |-> << >>]

\* the registering goroutine between two calls
IdleWriter == [pc |-> "idle", p |-> NoProvider, i |-> 0, calls |-> 0]

\* a goroutine that has not called a lookup yet
IdleReader ==
    [pc |-> "idle", kind |-> "none", during |-> "idle", provs |-> EmptyMap,
     mods |-> EmptyMap, sawIndex |-> FALSE]

\* the two maps of the registry at one moment
Snapshot(ps, ms) == [providers |-> ps, models |-> ms]

\* nobody holds the lock, nobody is inside a call
NoLookups ==
    /\ mu = Unlocked
    /\ writer = IdleWriter
    /\ readers = [r \in Readers |-> IdleReader]
    /\ committed = {Snapshot(EmptyMap, EmptyMap)}

\* no prediction was submitted
NoJob ==
    /\ prediction = NoPrediction
    /\ imageURLs = << >>
    /\ images = << >>
    /\ events = << >>

NotCancelled == [pc |-> "never", attempts |-> -1]

NoResult == [resp |-> NoResp, err |-> NoErr]

NoGenResult ==
    [resp |-> "pending", images |-> << >>, revisedPrompt |-> NoPrompt,
     err |-> NoErr]

\* NewClient(WithRetries(n)): the retry counts a client is configured with
RetryCounts == 0..MaxRetriesBound

Init ==
    /\ caller \in Callers
    /\ maxRetries \in RetryCounts
    /\ IF caller = "direct"
         THEN /\ apiKey = "" /\ req = NoRequest /\ body \in BodyKinds
              /\ reply = NotJSON
         ELSE /\ apiKey \in APIKeys /\ req \in Requests /\ body = "nil"
              /\ reply = OneImage
    /\ pc = "idle"
    /\ attempt = 0
    /\ lastErr = NoErr
    /\ cancelled = FALSE
    /\ cancelAt = NotCancelled
    /\ offset = 0
    /\ sent = <<>>
    /\ hist = <<>>
    /\ waited = 0
    /\ doResult = NoResult
    /\ genResult = NoGenResult
    /\ NewRegistry
    /\ NoCommand
    /\ NoJob
    /\ NoClients
    /\ NoLookups

(* -------------------------------------------------------------- Client.Do *)

\* 1 << n, by n doublings
RECURSIVE Shl1(_)
Shl1(n) == IF n <= 0 THEN 1 ELSE 2 * Shl1(n - 1)

\* a backoff that doubles from one second: 1 << (attempt - 1)
DelayFromOne(k) == Shl1(k - 1)

\* delay := time.Duration(1<<attempt) * time.Second, in seconds
Delay(k) == Shl1(k)

\* a retry test that takes every 4xx for retryable
RetryableAnyClientError(status) == status >= 400

\* status >= 500 || status == 429
Retryable(status) == status >= 500 \/ status = StatusTooManyRequests

\* a Do that clones the request and never rewinds its body
RewoundNever(b, off) == off

\* the offset req.Body is read from by the next httpClient.Do: Seek(0,
\* io.SeekStart) when the body is an io.Seeker, else where the last read left it
Rewound(b, off) == IF IsSeeker(b) THEN 0 ELSE off

\* the body bytes an httpClient.Do call carries
Carried(b, off) == IF b = "nil" THEN <<>> ELSE BodyFrom(Rewound(b, off))

\* return resp, err
Return(resp, err) ==
    /\ doResult' = [resp |-> resp, err |-> err]
    /\ pc' = IF caller = "direct" THEN "done" ELSE "returned"

\* reqClone := req.Clone(ctx); rewind; httpClient.Do(reqClone) is called
Begin(b, k, w) ==
    /\ attempt' = k
    /\ offset' = Rewound(b, offset)
    /\ sent' = Append(sent, [carried |-> Carried(b, offset), delay |-> w])
    /\ pc' = "inflight"
    /\ UNCHANGED doResult

\* the loop from attempt := 0
Enter(b) ==
    /\ lastErr' = NoErr
    /\ IF 0 <= maxRetries
         THEN Begin(b, 0, 0)
         ELSE /\ Return(NoResp, Wrap("max retries exceeded", NoErr))
              /\ UNCHANGED <<attempt, offset, sent>>

\* a loop that runs while attempt <= maxRetries + 1
ContinueOneMore(le) ==
    /\ lastErr' = le
    /\ attempt' = attempt + 1
    /\ IF attempt + 1 <= maxRetries + 1
         THEN pc' = "backoff" /\ UNCHANGED doResult
         ELSE Return(NoResp, Wrap("max retries exceeded", le))

\* a loop that records only the first failure in lastErr
ContinueFirstErr(le) ==
    LET kept == IF lastErr = NoErr THEN le ELSE lastErr IN
    /\ lastErr' = kept
    /\ attempt' = attempt + 1
    /\ IF attempt + 1 <= maxRetries
         THEN pc' = "backoff" /\ UNCHANGED doResult
         ELSE Return(NoResp, Wrap("max retries exceeded", kept))

\* continue: attempt++ and the loop condition
Continue(le) ==
    /\ lastErr' = le
    /\ attempt' = attempt + 1
    /\ IF attempt + 1 <= maxRetries
         THEN pc' = "backoff" /\ UNCHANGED doResult
         ELSE Return(NoResp, Wrap("max retries exceeded", le))

\* a direct call of Do(ctx, req)
Do ==
    /\ pc = "idle"
    /\ caller = "direct"
    /\ Enter(body)
    /\ UNCHANGED <<callVars, body, cancelled, cancelAt, hist, waited, genResult>>

\* a backoff that sleeps (time.Sleep) without selecting on ctx.Done()
TimerFireSleep ==
    /\ pc = "backoff"
    /\ waited' = waited + Delay(attempt)
    /\ Begin(body, attempt, Delay(attempt))
    /\ UNCHANGED <<callVars, body, lastErr, cancelled, cancelAt, hist, genResult>>

\* case <-time.After(delay): the backoff ends and the next attempt starts
TimerFire ==
    /\ pc = "backoff"
    /\ ~cancelled
    /\ waited' = waited + Delay(attempt)
    /\ Begin(body, attempt, Delay(attempt))
    /\ UNCHANGED <<callVars, body, lastErr, cancelled, cancelAt, hist, genResult>>

\* case <-ctx.Done(): return nil, ctx.Err()
CtxDone ==
    /\ pc = "backoff"
    /\ cancelled
    /\ Return(NoResp, CtxErr)
    /\ UNCHANGED <<callVars, body, attempt, lastErr, cancelled, cancelAt,
                   offset, sent, hist, waited, genResult>>

\* the current attempt was started after ctx was cancelled
StartedCancelled == cancelled /\ cancelAt.attempts < Len(sent)

\* where a failed round trip can have left the body's read offset
Consumed == IF body = "nil" THEN {0} ELSE offset..BodyLen

\* a response follows a request that was written out in full
ConsumedAll == IF body = "nil" THEN {0} ELSE {BodyLen}

\* httpClient.Do returned err != nil
AttemptTransportError ==
    /\ pc = "inflight"
    /\ \E c \in TransportCauses, n \in Consumed :
        /\ c = "context canceled" => cancelled
        /\ StartedCancelled => c = "context canceled"
        /\ offset' = n
        /\ hist' = Append(hist, [kind |-> "error", status |-> 0,
                                 cause |-> c, closedBy |-> "none",
                                 readTo |-> n])
        /\ Continue(TransportErr(c))
    /\ UNCHANGED <<callVars, body, cancelled, cancelAt, sent, waited, genResult>>

\* a retry that drops the response without resp.Body.Close()
AttemptRetryableStatusLeak ==
    /\ pc = "inflight"
    /\ ~StartedCancelled
    /\ \E st \in Statuses, n \in ConsumedAll :
        /\ Retryable(st)
        /\ offset' = n
        /\ hist' = Append(hist, [kind |-> "response", status |-> st,
                                 cause |-> "", closedBy |-> "none",
                                 readTo |-> n])
        /\ Continue(ServerErr(st))
    /\ UNCHANGED <<callVars, body, cancelled, cancelAt, sent, waited, genResult>>

\* httpClient.Do returned a response with status >= 500 or 429
AttemptRetryableStatus ==
    /\ pc = "inflight"
    /\ ~StartedCancelled
    /\ \E st \in Statuses, n \in ConsumedAll :
        /\ Retryable(st)
        /\ offset' = n
        /\ hist' = Append(hist, [kind |-> "response", status |-> st,
                                 cause |-> "", closedBy |-> "Do",
                                 readTo |-> n])
        /\ Continue(ServerErr(st))
    /\ UNCHANGED <<callVars, body, cancelled, cancelAt, sent, waited, genResult>>

\* httpClient.Do returned a response with any other status: return resp, nil
AttemptSuccess ==
    /\ pc = "inflight"
    /\ ~StartedCancelled
    /\ \E st \in Statuses, n \in ConsumedAll :
        /\ ~Retryable(st)
        /\ offset' = n
        /\ hist' = Append(hist, [kind |-> "response", status |-> st,
                                 cause |-> "", closedBy |-> "none",
                                 readTo |-> n])
        /\ Return([status |-> st, attempt |-> attempt], NoErr)
    /\ UNCHANGED <<callVars, body, attempt, lastErr, cancelled, cancelAt,
                   sent, waited, genResult>>

\* the context is cancelled (interrupt signal) before Do has returned
Cancel ==
    /\ ~cancelled
    /\ pc \in {"idle", "backoff", "inflight"}
    /\ cancelled' = TRUE
    /\ cancelAt' = [pc |-> pc, attempts |-> Len(sent)]
    /\ UNCHANGED <<callVars, body, pc, attempt, lastErr, offset, sent, hist,
                   waited, doResult, genResult>>

(* ------------------------------------------------------ Provider.Generate *)

\* a Generate that checks only the credential before it submits
GenerateKeyCheckOnly ==
    /\ pc = "idle"
    /\ caller \in Adapters
    /\ IF apiKey = ""
         THEN /\ genResult' = Failed(ValidateRequest(caller, apiKey, req))
              /\ pc' = "done"
              /\ UNCHANGED <<body, attempt, lastErr, offset, sent, doResult>>
         ELSE /\ body' = NewRequestWithContext(SubmissionReader(caller))
              /\ Enter(body')
              /\ UNCHANGED genResult
    /\ UNCHANGED <<callVars, cancelled, cancelAt, hist, waited>>

\* Generate up to its call of httpClient.Do: ValidateRequest, then the
\* submission POST is built and handed to Do
Generate ==
    /\ pc = "idle"
    /\ caller \in Adapters
    /\ LET err == ValidateRequest(caller, apiKey, req) IN
        IF err # NoErr
          THEN /\ genResult' = Failed(err)
               /\ pc' = "done"
               /\ UNCHANGED <<body, attempt, lastErr, offset, sent, doResult>>
          ELSE /\ body' = NewRequestWithContext(SubmissionReader(caller))
               /\ Enter(body')
               /\ UNCHANGED genResult
    /\ UNCHANGED <<callVars, cancelled, cancelAt, hist, waited>>

\* resp, err := httpClient.Do(ctx, httpReq); if err != nil { return nil, err }
GenerateFail ==
    /\ pc = "returned"
    /\ doResult.err # NoErr
    /\ genResult' = Failed(doResult.err)
    /\ pc' = "done"
    /\ UNCHANGED <<callVars, body, attempt, lastErr, cancelled, cancelAt,
                   offset, sent, hist, waited, doResult>>

\* Do returned a response: the status check, the decoding of the payload, and
\* the deferred resp.Body.Close()
GenerateReceive ==
    /\ pc = "returned"
    /\ doResult.err = NoErr
    /\ \E polled \in PollOutcomes :
        genResult' =
            Receive(caller, doResult.resp.status, reply, polled, cancelled)
    /\ hist' = [hist EXCEPT ![doResult.resp.attempt + 1].closedBy = "Generate"]
    /\ pc' = "done"
    /\ UNCHANGED <<callVars, body, attempt, lastErr, cancelled, cancelAt,
                   offset, sent, waited, doResult>>

Next ==
    \/ Do
    \/ TimerFire
    \/ CtxDone
    \/ AttemptTransportError
    \/ AttemptRetryableStatus
    \/ AttemptSuccess
    \/ Cancel
    \/ Generate
    \/ GenerateFail
    \/ GenerateReceive

Spec == Init /\ [][Next]_vars

(* ------------------------------------------ Generate on every kind of reply *)

\* the retry counts of the clients whose replies are looked at
FewRetries == {0, 1}

\* an adapter with a credential, a valid request for 0..MaxCount images, a
\* backend that answers with any of the adapter's replies; or Do alone
GenInit ==
    /\ caller \in Callers
    /\ maxRetries \in FewRetries
    /\ IF caller = "direct"
         THEN /\ apiKey = "" /\ req = NoRequest /\ body \in BodyKinds
              /\ reply = NotJSON
         ELSE /\ apiKey = "sk-key" /\ req \in CountRequests /\ body = "nil"
              /\ reply \in Replies(caller)
    /\ pc = "idle"
    /\ attempt = 0
    /\ lastErr = NoErr
    /\ cancelled = FALSE
    /\ cancelAt = NotCancelled
    /\ offset = 0
    /\ sent = <<>>
    /\ hist = <<>>
    /\ waited = 0
    /\ doResult = NoResult
    /\ genResult = NoGenResult
    /\ NewRegistry
    /\ NoCommand
    /\ NoJob
    /\ NoClients
    /\ NoLookups

GenSpec == GenInit /\ [][Next]_vars

(* --------------------------------- Do with the retry count of a settings file *)

\* max_retries as a settings file can give it: viper reads any integer and
\* WithRetries stores it as it is
ConfiguredRetries == {-1, 0, 1}

\* a client built from a provider's settings; or Do alone on such a client
RetryInit ==
    /\ caller \in Callers
    /\ maxRetries \in ConfiguredRetries
    /\ IF caller = "direct"
         THEN /\ apiKey = "" /\ req = NoRequest /\ body \in BodyKinds
              /\ reply = NotJSON
         ELSE /\ apiKey \in APIKeys /\ req \in Requests /\ body = "nil"
              /\ reply = OneImage
    /\ pc = "idle"
    /\ attempt = 0
    /\ lastErr = NoErr
    /\ cancelled = FALSE
    /\ cancelAt = NotCancelled
    /\ offset = 0
    /\ sent = <<>>
    /\ hist = <<>>
    /\ waited = 0
    /\ doResult = NoResult
    /\ genResult = NoGenResult
    /\ NewRegistry
    /\ NoCommand
    /\ NoJob
    /\ NoClients
    /\ NoLookups

RetrySpec == RetryInit /\ [][Next]_vars

(* ------------------------------------------------- the registry in use *)

\* calls made on one registry
MaxOps == 3

\* adapters one start-up builds and registers
MaxEnabled == 2

\* the adapters initProviders builds, in the order it registers them
BuiltLists == UNION { [1..n -> Pool] : n \in 0..MaxEnabled }

\* p is registered although one of its model IDs is indexed for another name
Overwrites(ps, ms, p) ==
    /\ p.name \notin DOMAIN ps
    /\ \E i \in 1..Len(p.models) :
          p.models[i] \in DOMAIN ms /\ ms[p.models[i]] # p.name

\* the body of initProviders: registry.Register(x) for each adapter built,
\* the value Register returns being dropped; problem tells whether some call
\* returned an error or wrote over an index entry of another adapter
RECURSIVE RegisterAll(_, _, _)
RegisterAll(ps, ms, built) ==
    IF built = << >>
    THEN [providers |-> ps, models |-> ms, problem |-> FALSE]
    ELSE LET r    == Register(ps, ms, Head(built))
             rest == RegisterAll(r.providers, r.models, Tail(built))
         IN  [providers |-> rest.providers, models |-> rest.models,
              problem |-> \/ rest.problem
                          \/ r.err # NoErr
                          \/ Overwrites(ps, ms, Head(built))]

\* a registry nobody has called yet, no run of Do or Generate under way
RegInit ==
    /\ caller = "direct"
    /\ apiKey = ""
    /\ req = NoRequest
    /\ maxRetries = DefaultMaxRetries
    /\ reply = NotJSON
    /\ body = "nil"
    /\ pc = "idle"
    /\ attempt = 0
    /\ lastErr = NoErr
    /\ cancelled = FALSE
    /\ cancelAt = NotCancelled
    /\ offset = 0
    /\ sent = <<>>
    /\ hist = <<>>
    /\ waited = 0
    /\ doResult = NoResult
    /\ genResult = NoGenResult
    /\ NewRegistry
    /\ NoCommand
    /\ NoJob
    /\ NoClients
    /\ NoLookups

\* initConfig: registry = provider.NewRegistry(); initProviders()
InitProviders ==
    /\ nops = 0
    /\ \E built \in BuiltLists :
         LET r == RegisterAll(providers, models, built) IN
           /\ providers' = r.providers
           /\ models' = r.models
           /\ lastOp' = [NoOp EXCEPT !.op = "initProviders",
                                     !.pid = Len(built),
                                     !.problem = r.problem]
    /\ nops' = nops + 1
    /\ UNCHANGED <<caller, apiKey, req, maxRetries, reply, runVars, cmdVars, jobVars, confVars, lockVars>>

\* one call of Registry.Register
CallRegister ==
    /\ nops < MaxOps
    /\ \E p \in Pool :
         LET r == Register(providers, models, p) IN
           /\ providers' = r.providers
           /\ models' = r.models
           /\ lastOp' = [NoOp EXCEPT !.op = "Register",
                                     !.name = p.name,
                                     !.pid = p.id,
                                     !.err = r.err,
                                     !.problem = \/ r.err # NoErr
                                                 \/ Overwrites(providers, models, p)]
    /\ nops' = nops + 1
    /\ UNCHANGED <<caller, apiKey, req, maxRetries, reply, runVars, cmdVars, jobVars, confVars, lockVars>>

\* one call of Registry.GetByName
CallGetByName ==
    /\ nops < MaxOps
    /\ \E name \in NameQueries :
         LET r == GetByName(providers, name) IN
           lastOp' = [NoOp EXCEPT !.op = "GetByName",
                                  !.name = name,
                                  !.res = r.res,
                                  !.err = r.err]
    /\ nops' = nops + 1
    /\ UNCHANGED <<caller, apiKey, req, maxRetries, reply, runVars, cmdVars, jobVars, confVars, lockVars,
                   providers, models>>

\* one call of Registry.GetByModel
CallGetByModel ==
    /\ nops < MaxOps
    /\ \E modelID \in ModelQueries :
         LET r == GetByModel(providers, models, modelID) IN
           lastOp' = [NoOp EXCEPT !.op = "GetByModel",
                                  !.model = modelID,
                                  !.res = r.res,
                                  !.err = r.err]
    /\ nops' = nops + 1
    /\ UNCHANGED <<caller, apiKey, req, maxRetries, reply, runVars, cmdVars, jobVars, confVars, lockVars,
                   providers, models>>

RegNext ==
    \/ InitProviders
    \/ CallRegister
    \/ CallGetByName
    \/ CallGetByModel

RegSpec == RegInit /\ [][RegNext]_vars

(* -------------------------------------------- from the flags to the request *)

\* a command line naming an adapter that encodes a seed, before RunE
CliInit ==
    /\ caller \in SeedAdapters
    /\ apiKey = "sk-key"
    /\ flags \in CommandLines(caller)
    /\ cfg \in Configs
    /\ opts = NoOptions
    /\ outbound = NoOutbound
    /\ req = NoRequest
    /\ maxRetries = DefaultMaxRetries
    /\ reply = OneImage
    /\ body = "nil"
    /\ pc = "cli"
    /\ attempt = 0
    /\ lastErr = NoErr
    /\ cancelled = FALSE
    /\ cancelAt = NotCancelled
    /\ offset = 0
    /\ sent = <<>>
    /\ hist = <<>>
    /\ waited = 0
    /\ doResult = NoResult
    /\ genResult = NoGenResult
    /\ NewRegistry
    /\ NoJob
    /\ NoClients
    /\ NoLookups

\* RunE up to its call of runGenerate: the flags are parsed into opts,
\* hasSeed and hasDryRun are set
RunE ==
    /\ pc = "cli"
    /\ flags.prompt.changed
    /\ opts' = ParseFlags(flags)
    /\ pc' = "parsed"
    /\ UNCHANGED <<caller, apiKey, req, maxRetries, reply, regVars, jobVars, confVars, lockVars,
                   flags, cfg, outbound, body, attempt, lastErr, cancelled, cancelAt,
                   offset, sent, hist, waited, doResult, genResult>>

\* runGenerate up to the request the adapter hands to its client:
\* applyDefaults, the Request, the provider (the placeholder one under
\* dry-run, which encodes nothing), then the adapter's encoding
RunGenerate ==
    /\ pc = "parsed"
    /\ opts' = applyDefaults(opts, cfg)
    /\ req' = BuildRequest(opts')
    /\ LET p == SelectProvider(opts')
       IN  outbound' = IF p = "dryrun" \/ ValidateRequest(p, apiKey, req') # NoErr
                       THEN NoOutbound
                       ELSE Encode(p, req')
    /\ pc' = "encoded"
    /\ UNCHANGED <<caller, apiKey, maxRetries, reply, regVars, jobVars, confVars, lockVars,
                   flags, cfg, body, attempt, lastErr, cancelled, cancelAt, offset, sent,
                   hist, waited, doResult, genResult>>

CliNext ==
    \/ RunE
    \/ RunGenerate

CliSpec == CliInit /\ [][CliNext]_vars

(* ------------------------------------------------ Replicate.Generate *)

\* what Replicate.Generate leaves alone
restVars ==
    <<caller, apiKey, req, maxRetries, reply, regVars, cmdVars, confVars,
      lockVars, body, attempt, lastErr, offset, sent, hist, waited, doResult>>

\* the Replicate adapter, with or without a credential, before Generate; the
\* request asks for one image (Generate reads neither Count nor Size)
RepInit ==
    /\ caller = "replicate"
    /\ apiKey \in APIKeys
    /\ req \in {r \in CountRequests : r.Count = 1}
    /\ maxRetries = DefaultMaxRetries
    /\ reply = OneImage
    /\ body = "nil"
    /\ pc = "idle"
    /\ attempt = 0
    /\ lastErr = NoErr
    /\ cancelled = FALSE
    /\ cancelAt = NotCancelled
    /\ offset = 0
    /\ sent = <<>>
    /\ hist = <<>>
    /\ waited = 0
    /\ doResult = NoResult
    /\ genResult = NoGenResult
    /\ NewRegistry
    /\ NoCommand
    /\ NoJob
    /\ NoClients
    /\ NoLookups

\* Generate returns err
RepFail(err) ==
    /\ genResult' = Failed(err)
    /\ pc' = "done"

\* the number of status fetches made
Fetches == Len(SelectSeq(events, LAMBDA e : e.op = "fetch"))

\* Generate from its start to the decoded reply of the submission: the
\* credential check, the POST through Client.Do (which returns an error, or
\* a response whose status is none of those it retries), the status check,
\* the decoding of the prediction
Submit ==
    /\ pc = "idle"
    /\ IF ValidateRequest(caller, apiKey, req) # NoErr
       THEN /\ RepFail(ValidateRequest(caller, apiKey, req))
            /\ UNCHANGED <<prediction, events>>
       ELSE \/ \E e \in DoErrors :
                 /\ RepFail(e)
                 /\ events' = Append(events,
                        Event("submit", "predictions", 0, NoPrediction, FALSE,
                              0))
                 /\ UNCHANGED prediction
            \/ \E status \in Statuses \ {StatusOK, StatusCreated,
                                         StatusTooManyRequests, 503} :
                 /\ RepFail(NewErr("API error: status, body", status, ""))
                 /\ events' = Append(events,
                        Event("submit", "predictions", 0, NoPrediction, FALSE,
                              status))
                 /\ UNCHANGED prediction
            \/ /\ RepFail(NewErr("failed to decode response", 0, ""))
               /\ events' = Append(events,
                      Event("submit", "predictions", 0, NoPrediction, FALSE,
                              StatusOK))
               /\ UNCHANGED prediction
            \/ \E p \in PredictionRecords :
                 /\ prediction' = p
                 /\ events' = Append(events,
                        Event("submit", "predictions", 0, p, TRUE,
                              SubmitStatus(p)))
                 /\ pc' = AfterRecord(p)
                 /\ UNCHANGED genResult
    /\ UNCHANGED <<restVars, imageURLs, images, cancelled, cancelAt>>

\* a poll wait whose timer fires although ctx.Done() is closed
PollTimerUncancellable ==
    /\ pc = "wait"
    /\ Fetches < MaxPolls
    /\ events' = Append(events,
           Event("wait", "", PollInterval, NoPrediction, TRUE, 0))
    /\ pc' = "fetch"
    /\ UNCHANGED <<restVars, prediction, imageURLs, images, cancelled,
                   cancelAt, genResult>>

\* select, case <-time.After(2 * time.Second): the timer fires, ctx.Done()
\* not being closed
PollTimer ==
    /\ pc = "wait"
    /\ ~cancelled
    /\ Fetches < MaxPolls
    /\ events' = Append(events,
           Event("wait", "", PollInterval, NoPrediction, TRUE, 0))
    /\ pc' = "fetch"
    /\ UNCHANGED <<restVars, prediction, imageURLs, images, cancelled,
                   cancelAt, genResult>>

\* a select whose ctx.Done() case never returns
PollCtxDoneIgnored ==
    /\ pc = "wait"
    /\ cancelled
    /\ pc' = "wait"
    /\ UNCHANGED <<restVars, jobVars, cancelled, cancelAt, genResult>>

\* select, case <-ctx.Done(): return nil, ctx.Err()
PollCtxDone ==
    /\ pc = "wait"
    /\ cancelled
    /\ RepFail(CtxErr)
    /\ UNCHANGED <<restVars, jobVars, cancelled, cancelAt>>

\* prediction, err = r.getPrediction(ctx, prediction.URLs.Get): Client.Do
\* fails, or the body does not decode, or it decodes to a job record, the
\* HTTP status not being looked at: a 200 reply carries a job record, the
\* JSON error document of a 404 reply decodes to the empty record
GetPrediction ==
    /\ pc = "fetch"
    /\ \/ \E e \in DoErrors :
            /\ RepFail(e)
            /\ events' = Append(events,
                   Event("fetch", prediction.get, 0, NoPrediction, FALSE, 0))
            /\ UNCHANGED prediction
       \/ /\ RepFail(NewErr("json: cannot decode", 0, ""))
          /\ events' = Append(events,
                 Event("fetch", prediction.get, 0, NoPrediction, FALSE,
                       StatusOK))
          /\ UNCHANGED prediction
       \/ \E p \in PredictionRecords \cup {NoPrediction} :
            /\ prediction' = p
            /\ events' = Append(events,
                   Event("fetch", prediction.get, 0, p, TRUE,
                         IF p = NoPrediction THEN StatusNotFound
                         ELSE StatusOK))
            /\ pc' = AfterRecord(p)
            /\ UNCHANGED genResult
    /\ UNCHANGED <<restVars, imageURLs, images, cancelled, cancelAt>>

\* an end of the loop that takes the output of a failed job as well
ExtractFailedToo ==
    /\ pc = "extract"
    /\ IF ImageURLs(prediction.output) = << >>
       THEN /\ RepFail(NewErr("no images in response", 0, ""))
            /\ UNCHANGED imageURLs
       ELSE /\ imageURLs' = ImageURLs(prediction.output)
            /\ pc' = "download"
            /\ UNCHANGED genResult
    /\ UNCHANGED <<restVars, prediction, images, events, cancelled, cancelAt>>

\* after the loop: the failed job's error, else imageURLs from the output,
\* and "no images in response" when there is none
Extract ==
    /\ pc = "extract"
    /\ IF prediction.status = "failed"
       THEN /\ RepFail(WithText("Replicate generation failed", prediction.error))
            /\ UNCHANGED imageURLs
       ELSE IF ImageURLs(prediction.output) = << >>
       THEN /\ RepFail(NewErr("no images in response", 0, ""))
            /\ UNCHANGED imageURLs
       ELSE /\ imageURLs' = ImageURLs(prediction.output)
            /\ pc' = "download"
            /\ UNCHANGED genResult
    /\ UNCHANGED <<restVars, prediction, images, events, cancelled, cancelAt>>

\* images whose Index counts from one
AppendImageFromOne(imgs, url, ctype) ==
    Append(imgs, Image(Len(imgs) + 1, ReplicateFormat(ctype), url, Len(imgs)))

\* images = append(images, generator.Image{Data: data, URL: url,
\* Format: format, Index: i}), data being what url was answered with
AppendImage(imgs, url, ctype) ==
    Append(imgs, Image(Len(imgs), ReplicateFormat(ctype), url, Len(imgs)))

\* one turn of the download loop: r.downloadImage(ctx, url) for the next
\* URL; its error ends Generate, the body of the response it got, whatever
\* the status, is appended, and the Response is returned after the last URL
DownloadImage ==
    /\ pc = "download"
    /\ LET url == imageURLs[Len(images) + 1]
       IN  \/ /\ RepFail(Wrap("failed to download image", TransportErr("dial")))
              /\ events' = Append(events,
                     Event("download", url, 0, NoPrediction, FALSE, 0))
              /\ UNCHANGED images
           \/ \E r \in DownloadReplies :
                /\ images' = AppendImage(images, url, r.ctype)
                /\ events' = Append(events,
                       Event("download", url, 0, NoPrediction, TRUE,
                             r.status))
                /\ IF Len(images') = Len(imageURLs)
                   THEN /\ genResult' = Response(images', NoPrompt)
                        /\ pc' = "done"
                   ELSE UNCHANGED <<pc, genResult>>
    /\ UNCHANGED <<restVars, prediction, imageURLs, cancelled, cancelAt>>

\* the context is cancelled (interrupt signal) before Generate has returned;
\* cancelAt keeps where Generate was and how long its log was
PollCancel ==
    /\ ~cancelled
    /\ pc \in {"wait", "fetch", "download"}
    /\ cancelled' = TRUE
    /\ cancelAt' = [pc |-> pc, attempts |-> Len(events)]
    /\ UNCHANGED <<restVars, jobVars, pc, genResult>>

RepNext ==
    \/ Submit
    \/ PollTimer
    \/ PollCtxDone
    \/ GetPrediction
    \/ Extract
    \/ DownloadImage
    \/ PollCancel

RepSpec == RepInit /\ [][RepNext]_vars

\* what Generate does by itself once it can: every HTTP exchange returns
\* (http.Client.Timeout and Do's bounded retries), a timer that was started
\* fires, a select with a ready case returns. Nothing makes the context be
\* cancelled.
RepFairness ==
    /\ WF_vars(Submit)
    /\ WF_vars(PollTimer)
    /\ WF_vars(PollCtxDone)
    /\ WF_vars(GetPrediction)
    /\ WF_vars(Extract)
    /\ WF_vars(DownloadImage)

RepLiveSpec == RepInit /\ [][RepNext]_vars /\ RepFairness

(* ------------------------------------- from the settings to the clients *)

\* a configuration loaded, no adapter constructed yet
ConfInit ==
    /\ settings \in ProviderSettings
    /\ clients = [a \in Adapters |-> NoClient]
    /\ exchange = NoExchange
    /\ caller = "direct"
    /\ apiKey = ""
    /\ req = NoRequest
    /\ maxRetries = DefaultMaxRetries
    /\ reply = NotJSON
    /\ body = "nil"
    /\ pc = "config"
    /\ attempt = 0
    /\ lastErr = NoErr
    /\ cancelled = FALSE
    /\ cancelAt = NotCancelled
    /\ offset = 0
    /\ sent = <<>>
    /\ hist = <<>>
    /\ waited = 0
    /\ doResult = NoResult
    /\ genResult = NoGenResult
    /\ NewRegistry
    /\ NoCommand
    /\ NoJob
    /\ NoLookups

\* what the construction of the clients and their requests leave alone
confRest ==
    <<caller, apiKey, req, maxRetries, reply, regVars, cmdVars, jobVars,
      lockVars, body,
      attempt, lastErr, cancelled, cancelAt, offset, sent, hist, waited,
      doResult, genResult>>

\* initProviders: the adapter of every enabled provider is constructed
BuildClients ==
    /\ pc = "config"
    /\ clients' = [a \in Adapters |-> BuildClient(settings[a])]
    /\ pc' = "built"
    /\ UNCHANGED <<confRest, settings, exchange>>

\* httpClient.Do of one request of adapter a, which the backend takes took
\* seconds to answer
Exchange ==
    /\ pc = "built"
    /\ \E a \in Adapters, took \in Durations :
          /\ clients[a].built
          /\ exchange' = [adapter |-> a, took |-> took,
                          outcome |-> Outcome(clients[a], took)]
    /\ UNCHANGED <<confRest, settings, clients, pc>>

ConfNext ==
    \/ BuildClients
    \/ Exchange

ConfSpec == ConfInit /\ [][ConfNext]_vars

(* ------------------------------------------- the registry under its lock *)

\* the OpenAI adapter, which initProviders registers first
FirstProvider == CHOOSE p \in Pool : p.id = 1

\* the registry after start-up, shared by one registering goroutine and the
\* readers
LockInit ==
    /\ caller = "direct"
    /\ apiKey = ""
    /\ req = NoRequest
    /\ maxRetries = DefaultMaxRetries
    /\ reply = NotJSON
    /\ body = "nil"
    /\ pc = "shared"
    /\ attempt = 0
    /\ lastErr = NoErr
    /\ cancelled = FALSE
    /\ cancelAt = NotCancelled
    /\ offset = 0
    /\ sent = <<>>
    /\ hist = <<>>
    /\ waited = 0
    /\ doResult = NoResult
    /\ genResult = NoGenResult
    /\ providers = Register(EmptyMap, EmptyMap, FirstProvider).providers
    /\ models = Register(EmptyMap, EmptyMap, FirstProvider).models
    /\ lastOp = NoOp
    /\ nops = 0
    /\ NoCommand
    /\ NoJob
    /\ NoClients
    /\ mu = Unlocked
    /\ writer = IdleWriter
    /\ readers = [r \in Readers |-> IdleReader]
    /\ committed = {Snapshot(providers, models)}

\* what the calls on the shared registry leave alone
lockRest ==
    <<caller, apiKey, req, maxRetries, reply, runVars, cmdVars, jobVars,
      confVars, lastOp, nops>>

\* Register(p) is called: the goroutine is at r.mu.Lock()
RegisterCall ==
    /\ writer.pc = "idle"
    /\ writer.calls < MaxRegisters
    /\ \E p \in Pool :
          writer' = [writer EXCEPT !.pc = "waiting", !.p = p, !.i = 0]
    /\ UNCHANGED <<lockRest, providers, models, mu, readers, committed>>

\* r.mu.Lock() returns: no writer and no reader holds the lock
Lock ==
    /\ writer.pc = "waiting"
    /\ ~mu.writer
    /\ mu.readers = 0
    /\ mu' = [mu EXCEPT !.writer = TRUE]
    /\ writer' = [writer EXCEPT !.pc = "check"]
    /\ UNCHANGED <<lockRest, providers, models, readers, committed>>

\* if _, exists := r.providers[name]; exists { return err };
\* r.providers[name] = p
StoreProvider ==
    /\ writer.pc = "check"
    /\ IF writer.p.name \in DOMAIN providers
         THEN /\ writer' = [writer EXCEPT !.pc = "unlock"]
              /\ UNCHANGED providers
         ELSE /\ providers' = MapPut(providers, writer.p.name, writer.p)
              /\ writer' = [writer EXCEPT
                               !.pc = IF writer.p.models = << >>
                                        THEN "unlock" ELSE "index",
                               !.i = 1]
    /\ UNCHANGED <<lockRest, models, mu, readers, committed>>

\* one pass of the loop: r.models[model.ID] = name
IndexModel ==
    /\ writer.pc = "index"
    /\ models' = MapPut(models, writer.p.models[writer.i], writer.p.name)
    /\ writer' = [writer EXCEPT
                     !.pc = IF writer.i = Len(writer.p.models)
                              THEN "unlock" ELSE "index",
                     !.i = writer.i + 1]
    /\ UNCHANGED <<lockRest, providers, mu, readers, committed>>

\* the deferred r.mu.Unlock(), and Register returns
Unlock ==
    /\ writer.pc = "unlock"
    /\ mu' = [mu EXCEPT !.writer = FALSE]
    /\ writer' = [writer EXCEPT !.pc = "idle", !.calls = writer.calls + 1]
    /\ committed' = committed \cup {Snapshot(providers, models)}
    /\ UNCHANGED <<lockRest, providers, models, readers>>

\* a lookup is called: the goroutine is at r.mu.RLock()
LookupCall ==
    /\ \E r \in Readers, k \in Lookups :
          /\ readers[r].pc = "idle"
          /\ readers' = [readers EXCEPT
                            ![r] = [IdleReader EXCEPT !.pc = "waiting",
                                                      !.kind = k,
                                                      !.during = writer.pc]]
    /\ UNCHANGED <<lockRest, providers, models, mu, writer, committed>>

\* an r.mu.RLock() that returns while a writer holds the lock
RLockNoWait ==
    /\ \E r \in Readers :
          /\ readers[r].pc = "waiting"
          /\ readers' = [readers EXCEPT ![r].pc = "providers"]
    /\ mu' = [mu EXCEPT !.readers = mu.readers + 1]
    /\ UNCHANGED <<lockRest, providers, models, writer, committed>>

\* r.mu.RLock() returns: no writer holds the lock
RLock ==
    /\ ~mu.writer
    /\ \E r \in Readers :
          /\ readers[r].pc = "waiting"
          /\ readers' = [readers EXCEPT ![r].pc = "providers"]
    /\ mu' = [mu EXCEPT !.readers = mu.readers + 1]
    /\ UNCHANGED <<lockRest, providers, models, writer, committed>>

\* the lookup reads r.providers; GetByModel goes on to the model index
ReadProviders ==
    /\ \E r \in Readers :
          /\ readers[r].pc = "providers"
          /\ readers' = [readers EXCEPT
                            ![r].provs = providers,
                            ![r].pc = IF readers[r].kind = "GetByModel"
                                        THEN "index" ELSE "unlock"]
    /\ UNCHANGED <<lockRest, providers, models, mu, writer, committed>>

\* GetByModel reads r.models
ReadModels ==
    /\ \E r \in Readers :
          /\ readers[r].pc = "index"
          /\ readers' = [readers EXCEPT ![r].mods = models,
                                        ![r].sawIndex = TRUE,
                                        ![r].pc = "unlock"]
    /\ UNCHANGED <<lockRest, providers, models, mu, writer, committed>>

\* the deferred r.mu.RUnlock(), and the lookup returns
RUnlock ==
    /\ \E r \in Readers :
          /\ readers[r].pc = "unlock"
          /\ readers' = [readers EXCEPT ![r].pc = "done"]
    /\ mu' = [mu EXCEPT !.readers = mu.readers - 1]
    /\ UNCHANGED <<lockRest, providers, models, writer, committed>>

LockNext ==
    \/ RegisterCall
    \/ Lock
    \/ StoreProvider
    \/ IndexModel
    \/ Unlock
    \/ LookupCall
    \/ RLock
    \/ ReadProviders
    \/ ReadModels
    \/ RUnlock

LockSpec == LockInit /\ [][LockNext]_vars

(* ---------------------------------------------------------------- claims *)

\* Do has returned
DoReturned == pc \in {"returned", "done"} /\ doResult # NoResult

\* the i-th finished attempt ended in a way the transport retries
EndedRetryable(i) ==
    \/ hist[i].kind = "error"
    \/ hist[i].kind = "response"
        /\ (hist[i].status >= 500 \/ hist[i].status = 429)

\* the error the i-th finished attempt left in lastErr
CauseOfAttempt(i) ==
    IF hist[i].kind = "error"
      THEN [kind |-> "url.Error", code |-> 0, cause |-> hist[i].cause,
            root |-> ""]
      ELSE [kind |-> "server error", code |-> hist[i].status, cause |-> "",
            root |-> ""]

\* C1: one call of Do performs at most maxRetries + 1 HTTP attempts, whatever
\* the outcomes of the attempts are.
C1_AtMostMaxRetriesPlusOne == Len(sent) <= maxRetries + 1

\* four attempts were made with the default maxRetries = 3
C1_Witness ==
    /\ pc = "done"
    /\ maxRetries = DefaultMaxRetries
    /\ Len(sent) = 4
    /\ Len(hist) = 4

\* C2: an attempt is followed by another attempt only if it ended in a
\* transport error, a status >= 500 or status 429; an attempt that returns any
\* other status ends the call with that response and a nil error.
C2_RetryOnlyRetryable ==
    \A i \in 1..Len(hist) :
        /\ i < Len(sent) => EndedRetryable(i)
        /\ ~EndedRetryable(i) =>
            /\ i = Len(sent)
            /\ pc \in {"returned", "done"}
            /\ doResult.err = NoErr
            /\ doResult.resp = [status |-> hist[i].status, attempt |-> i - 1]

\* a 404 on the second attempt, after a retried first attempt, ended the call
C2_Witness ==
    /\ DoReturned
    /\ Len(hist) = 2
    /\ Len(sent) = 2
    /\ maxRetries >= 2
    /\ hist[2].kind = "response"
    /\ hist[2].status = 404
    /\ doResult.resp.status = 404

\* C3: Do waits 2^k seconds before attempt k for k >= 1 and nothing before
\* attempt 0, so a call that succeeds on its N-th attempt has waited
\* 2^1 + ... + 2^(N-1) = 2^N - 2 seconds in total.
C3_BackoffDelays ==
    /\ \A i \in 1..Len(sent) :
          sent[i].delay = IF i = 1 THEN 0 ELSE 2 ^ (i - 1)
    /\ (DoReturned /\ doResult.err = NoErr) => waited = 2 ^ Len(sent) - 2

\* a call succeeded on its third attempt, having waited 2 + 4 seconds
C3_Witness ==
    /\ DoReturned
    /\ doResult.err = NoErr
    /\ Len(sent) = 3
    /\ waited = 6

\* C4: when the context is cancelled during a backoff wait, Do returns the
\* context's cancellation error next and performs no further HTTP attempt.
C4_CancelDuringBackoff ==
    cancelAt.pc = "backoff" =>
        /\ Len(sent) = cancelAt.attempts
        /\ \/ pc = "backoff"
           \/ /\ pc \in {"returned", "done"}
              /\ doResult.resp = NoResp
              /\ doResult.err = [kind |-> "context canceled", code |-> 0,
                                 cause |-> "", root |-> ""]

\* cancelled in the wait between attempt 1 and attempt 2; Do has returned
C4_Witness ==
    /\ cancelAt = [pc |-> "backoff", attempts |-> 1]
    /\ DoReturned
    /\ Len(sent) = 1

\* C5: once the context is cancelled during a Do call, in a backoff wait or
\* while an attempt is in flight (the last permitted attempt included), no new
\* HTTP attempt is started and the error Do returns is the context's
\* cancellation error, not the aggregated "max retries exceeded" error.
C5_CancellationDistinct ==
    cancelAt.pc \in {"backoff", "inflight"} =>
        /\ Len(sent) = cancelAt.attempts
        /\ (DoReturned /\ doResult.err # NoErr) =>
              doResult.err = [kind |-> "context canceled", code |-> 0,
                              cause |-> "", root |-> ""]

\* C6: when every one of the maxRetries + 1 attempts is retryable, Do returns
\* a nil response and one "max retries exceeded" error that wraps the cause of
\* the last attempt.
C6_ExhaustionWrapsLast ==
    ( /\ DoReturned
      /\ Len(hist) = maxRetries + 1
      /\ \A i \in 1..Len(hist) : EndedRetryable(i) ) =>
        /\ doResult.resp = NoResp
        /\ doResult.err.kind = "max retries exceeded"
        /\ doResult.err.cause = CauseOfAttempt(Len(hist)).kind
        /\ doResult.err.code = CauseOfAttempt(Len(hist)).code
        /\ doResult.err.root = CauseOfAttempt(Len(hist)).cause

\* retries were exhausted and the last attempt failed differently from the first
C6_Witness ==
    /\ DoReturned
    /\ maxRetries >= 1
    /\ Len(hist) = maxRetries + 1
    /\ \A i \in 1..Len(hist) : EndedRetryable(i)
    /\ CauseOfAttempt(1) # CauseOfAttempt(Len(hist))
    /\ doResult.err.kind = "max retries exceeded"

\* C7: a request whose body supports seeking is rewound to offset 0 before
\* each attempt, so every attempt carries the bytes the first attempt carried.
C7_SeekableBodyRewound ==
    body = "readSeekCloser" =>
        \A i \in 1..Len(sent) :
            /\ sent[i].carried = sent[1].carried
            /\ Len(sent[i].carried) = BodyLen

\* a seekable body that two attempts read to its end is carried by a third
C7_Witness ==
    /\ body = "readSeekCloser"
    /\ Len(sent) = 3
    /\ pc = "inflight"
    /\ Len(hist) = 2
    /\ hist[1].readTo = BodyLen
    /\ hist[2].readTo = BodyLen
    /\ sent[3].carried = BodyBytes

\* C8: for the submission POST of every adapter, every retry attempt carries
\* the same request body bytes as the first attempt.
C8_AdapterBodyResent ==
    caller \in Adapters =>
        \A i \in 1..Len(sent) : sent[i].carried = sent[1].carried

\* C9: every response of a retried attempt (status >= 500 or 429) has its body
\* closed by Do before the next attempt or the exhaustion error; the body of
\* the response Do returns is not closed by Do.
C9_RetriedBodiesClosed ==
    /\ \A i \in 1..Len(hist) :
          (hist[i].kind = "response"
             /\ (hist[i].status >= 500 \/ hist[i].status = 429))
          => hist[i].closedBy = "Do"
    /\ (DoReturned /\ doResult.err = NoErr) =>
          hist[doResult.resp.attempt + 1].closedBy # "Do"

\* Do returned the 200 of its second attempt after closing a 503
C9_Witness ==
    /\ pc = "returned"
    /\ Len(hist) = 2
    /\ hist[1].kind = "response"
    /\ hist[1].status = 503
    /\ hist[1].closedBy = "Do"
    /\ doResult.resp = [status |-> 200, attempt |-> 1]
    /\ hist[2].closedBy = "none"

\* C10: for every adapter, when ValidateRequest(req) returns an error e,
\* Generate returns a nil Response with that error e and makes no HTTP attempt.
C10_ValidateFailsFast ==
    (caller \in Adapters /\ ValidateRequest(caller, apiKey, req) # NoErr) =>
        /\ Len(sent) = 0
        /\ pc \in {"idle", "done"}
        /\ pc = "done" =>
              genResult = [resp |-> "nil", images |-> << >>,
                           revisedPrompt |-> NoPrompt,
                           err |-> ValidateRequest(caller, apiKey, req)]

\* OpenAI's Generate returned the size error of a request with a credential
C10_Witness ==
    /\ caller = "openai"
    /\ apiKey # ""
    /\ pc = "done"
    /\ genResult.resp = "nil"
    /\ genResult.err.kind = "invalid size for DALL-E 3"
    /\ Len(sent) = 0


\* the error each adapter's ValidateRequest returns for an empty credential
KeyRequired(a) ==
    CASE a = "openai"     -> "OpenAI API key is required"
      [] a = "google"     -> "Google API key is required"
      [] a = "openrouter" -> "OpenRouter API key is required"
      [] a = "stability"  -> "Stability API key is required"
      [] a = "replicate"  -> "Replicate API token is required"

\* C11: for each of the five adapters an empty API key makes ValidateRequest
\* return the adapter's "key is required" error for every request, whatever
\* its size, quality and style are; Generate then ends with that error and
\* without any request having been sent, so the missing credential is reported
\* neither by a network error nor by another validation error.
C11_CredentialCheckedFirst ==
    (caller \in Adapters /\ apiKey = "") =>
        /\ ValidateRequest(caller, apiKey, req).kind = KeyRequired(caller)
        /\ pc \in {"idle", "done"}
        /\ sent = << >> /\ hist = << >>
        /\ pc = "done" => genResult.err.kind = KeyRequired(caller)

\* OpenAI's Generate has ended on a request without a key whose size, quality
\* and style are all invalid as well
C11_Witness ==
    /\ caller = "openai" /\ apiKey = "" /\ pc = "done"
    /\ extractModelName("openai", req.Model) = ModelDALLE3
    /\ req.Size = "512x512" /\ req.Quality = "ultra" /\ req.Style = "neon"
    /\ genResult.err.kind = "OpenAI API key is required"


\* the lookup GetByModel has just answered
Asked == lastOp.model

\* the prefix of the identifier asked for names a registered provider
PrefixRegistered ==
    Len(Asked) > 1 /\ Head(Asked) \in DOMAIN providers

\* the model index has the identifier asked for
Indexed ==
    Asked \in DOMAIN models /\ models[Asked] \in DOMAIN providers

\* C12: a Register call for a provider name that is already registered
\* returns the "already registered" error and changes neither the provider
\* map nor the model index, so the first adapter stays the one every lookup
\* finds and no model of the second adapter is indexed.
C12_DuplicateRejected ==
    [][ (/\ lastOp'.op = "Register"
         /\ nops' = nops + 1
         /\ lastOp'.name \in DOMAIN providers)
        => /\ lastOp'.err = NewErr("provider already registered", 0, lastOp'.name)
           /\ providers' = providers
           /\ models' = models ]_vars

\* a second Provider named "openai" was turned down: the first is still the
\* one registered and the model only the second advertises is not indexed
C12_Witness ==
    /\ lastOp.op = "Register" /\ lastOp.pid = 3
    /\ lastOp.err.kind = "provider already registered"
    /\ providers["openai"].id = 1
    /\ <<"openai", "dall-e-4">> \notin DOMAIN models
    /\ <<"openai", "gpt-image-1">> \in DOMAIN models

\* C13: GetByModel tries the text before the first "/" as a provider name
\* and returns that adapter when it is registered, however many slashes
\* follow; otherwise it looks the whole identifier up in the model index;
\* when both fail it returns the "no provider found for model" error.
C13_ResolutionOrder ==
    lastOp.op = "GetByModel" =>
        IF PrefixRegistered
        THEN lastOp.res = providers[Head(Asked)].id /\ lastOp.err = NoErr
        ELSE IF Indexed
        THEN lastOp.res = providers[models[Asked]].id /\ lastOp.err = NoErr
        ELSE /\ lastOp.res = NilProvider
             /\ lastOp.err.kind = "no provider found for model"

\* "openai/dall-e-3" is indexed for the provider "mirror", and the lookup
\* returned the adapter its prefix names
C13_Witness ==
    /\ lastOp.op = "GetByModel"
    /\ Asked = <<"openai", "dall-e-3">>
    /\ Indexed /\ models[Asked] = "mirror"
    /\ PrefixRegistered
    /\ lastOp.res = 1

\* C14: for an identifier whose prefix names no registered provider and
\* which the model index does not have, GetByModel returns an error and no
\* adapter; an adapter it returns is the one the prefix names or the one
\* the index records for the identifier.
C14_NeverWrongAdapter ==
    lastOp.op = "GetByModel" =>
        /\ (~PrefixRegistered /\ Asked \notin DOMAIN models) =>
               lastOp.res = NilProvider /\ lastOp.err # NoErr
        /\ lastOp.res # NilProvider =>
               \/ PrefixRegistered /\ lastOp.res = providers[Head(Asked)].id
               \/ Indexed /\ lastOp.res = providers[models[Asked]].id

\* with one provider registered, an identifier of another provider's was
\* asked for and turned down
C14_Witness ==
    /\ lastOp.op = "GetByModel"
    /\ Asked = <<"nobody", "model">>
    /\ Cardinality(DOMAIN providers) = 1
    /\ lastOp.res = NilProvider
    /\ lastOp.err.kind = "no provider found for model"

\* two spellings of one name that differ in case only
CaseVariants(a, b) == ToLower(a) = ToLower(b)

\* C15: GetByName returns the registered adapter for every spelling of its
\* provider name that differs from it in upper and lower case only, and the
\* "provider not found" error for a name no registered adapter has.
C15_GetByNameCaseInsensitive ==
    lastOp.op = "GetByName" =>
        /\ \A n \in DOMAIN providers :
              CaseVariants(lastOp.name, n) =>
                  lastOp.res = providers[n].id /\ lastOp.err = NoErr
        /\ (\A n \in DOMAIN providers : ~CaseVariants(lastOp.name, n)) =>
              /\ lastOp.res = NilProvider
              /\ lastOp.err.kind = "provider not found"

\* the OpenAI adapter was found under the name "OPENAI"
C15_Witness ==
    /\ lastOp.op = "GetByName"
    /\ lastOp.name = "OPENAI"
    /\ lastOp.res = 1 /\ lastOp.err = NoErr

\* C16: an identifier without a provider prefix that is the name of a model
\* a registered adapter advertises is resolved by GetByModel to that adapter.
C16_BareNameAutoDetected ==
    (lastOp.op = "GetByModel" /\ Len(Asked) = 1) =>
        \A n \in DOMAIN providers :
            (\E i \in 1..Len(providers[n].models) :
                 extractModelName(n, providers[n].models[i]) = Asked)
            => lastOp.res = providers[n].id /\ lastOp.err = NoErr

Succeeded == pc = "done" /\ genResult.resp = "response"

\* C18: a Response that Generate returns without an error has at least one
\* image, for every adapter and every reply of its backend.
C18_NoEmptyResponse ==
    (caller \in Adapters /\ Succeeded) => genResult.images # << >>

\* the number of images a request asks for: Count, or 1 when Count is not set
Requested == IF req.Count <= 0 THEN 1 ELSE req.Count

\* C19: a Response that Generate returns without an error has no fewer
\* images than the request asked for (stated for the Responses that have an
\* image at all; the empty ones are C18's).
C19_AllOrNothing ==
    (caller \in Adapters /\ Succeeded /\ genResult.images # << >>) =>
        Len(genResult.images) >= Requested

\* the last HTTP exchange of the call
LastExchange == hist[Len(hist)]

\* Generate failed on the status of the backend's last answer: Do handed
\* the answer over and the adapter does not accept its status, or Do gave up
\* after an answer with a retryable status
FailedOnStatus ==
    /\ caller \in Adapters /\ pc = "done" /\ genResult.err # NoErr
    /\ hist # << >>
    /\ LastExchange.kind = "response"
    /\ LastExchange.status \notin AcceptedStatuses(caller)
    /\ doResult.err = NoErr \/ doResult.err.kind = "max retries exceeded"

\* the error has the backend's message: as the text of the error, or in the
\* body the error quotes
CarriesMessage ==
    genResult.err.kind \in {"API error: message", "API error: status, body"}

\* the error is a "status N" message for the status of the last answer
NamesStatus ==
    /\ genResult.err.code = LastExchange.status
    /\ \/ genResult.err.kind \in {"API error: status", "API error: status, body"}
       \/ genResult.err.kind = "max retries exceeded"
          /\ genResult.err.cause = "server error"

\* C20: when Generate fails on the status of the backend's last answer, its
\* error has the backend's message if the body of that answer has one, and
\* names the status otherwise; a 429 or 5xx that lasts until the retries are
\* used up is such a failure.
C20_BackendMessageSurfaced ==
    FailedOnStatus =>
        IF reply.json /\ reply.errMsg THEN CarriesMessage ELSE NamesStatus


\* adapter a's Generate has ended on an HTTP 200 reply that Do handed over
Ended200(a) ==
    /\ caller = a /\ pc = "done"
    /\ doResult.err = NoErr
    /\ doResult.resp.status = StatusOK

\* the number of "ok" entries of a list of image entries
OkCount(items) == Cardinality({i \in 1..Len(items) : items[i] = "ok"})

\* C25: for an HTTP 200 reply OpenRouter's Generate returns the images of
\* message.images first, in their order, then the image entries of
\* message.content, none dropped as a duplicate; with one image in each shape
\* it returns exactly 2 images, with no image entry in either shape it
\* returns the "no images in response" error.
C25_ListThenContent ==
    (Ended200("openrouter") /\ reply.json) =>
        /\ Succeeded =>
              /\ Len(genResult.images) = Len(reply.items) + OkCount(reply.content)
              /\ \A k \in 1..Len(genResult.images) :
                    IF k <= Len(reply.items)
                    THEN genResult.images[k].data = [from |-> "images", pos |-> k - 1]
                    ELSE genResult.images[k].data.from = "content"
        /\ (reply.items = <<"ok">> /\ reply.content = <<"ok">>) =>
              Succeeded /\ Len(genResult.images) = 2
        /\ (reply.items = << >> /\ reply.content = << >>) =>
              genResult.err.kind = "no images in response"

\* one image in each shape: two images, the one of message.images first
C25_Witness ==
    /\ Ended200("openrouter")
    /\ reply.items = <<"ok">> /\ reply.content = <<"ok">>
    /\ Len(genResult.images) = 2
    /\ genResult.images[1].data.from = "images"
    /\ genResult.images[2].data.from = "content"

\* C26: when an image entry of an HTTP 200 reply cannot be decoded or
\* downloaded, in message.images or in message.content, OpenRouter's
\* Generate skips it: if the reply has an entry that can be, Generate
\* succeeds with the images of the entries that can be.
C26_FailedEntrySkipped ==
    (/\ Ended200("openrouter") /\ reply.json
     /\ OkCount(reply.items) + OkCount(reply.content) > 0) =>
        /\ Succeeded
        /\ Len(genResult.images) = OkCount(reply.items) + OkCount(reply.content)

\* Google's Generate has ended and the backend's last answer was a reply
GoogleAnswered ==
    /\ caller = "google" /\ pc = "done"
    /\ hist # << >>
    /\ LastExchange.kind = "response"
    /\ doResult.err = NoErr \/ doResult.err.kind = "max retries exceeded"

\* C27: when the body of the backend's reply has an error object, Google's
\* Generate returns the error made of that object's message, whatever the
\* HTTP status; the "status N" error is returned only for a reply without
\* an error object and with a status other than 200.
C27_ErrorObjectFirst ==
    GoogleAnswered =>
        /\ (reply.json /\ reply.errMsg) =>
              genResult.err.kind = "API error: message"
        /\ genResult.err.kind = "API error: status" =>
              ~reply.errMsg /\ LastExchange.status # StatusOK

\* C28: for an HTTP 200 reply Stability's Generate returns exactly one
\* image, with index 0, the whole body of the reply as its data, and the
\* format named by the Content-Type: "webp" for image/webp, "jpeg" for
\* image/jpeg, "png" otherwise.
C28_StabilityOneImage ==
    Ended200("stability") =>
        /\ Succeeded
        /\ Len(genResult.images) = 1
        /\ genResult.images[1].index = 0
        /\ genResult.images[1].data = [from |-> "body", pos |-> 0]
        /\ genResult.images[1].format =
              CASE reply.ctype = "image/webp" -> "webp"
                [] reply.ctype = "image/jpeg" -> "jpeg"
                [] OTHER                      -> "png"

\* a reply with Content-Type image/webp gave a webp image
C28_Witness ==
    /\ Ended200("stability")
    /\ reply.ctype = "image/webp"
    /\ genResult.images = <<[index |-> 0, format |-> "webp",
                             data |-> [from |-> "body", pos |-> 0]]>>

\* C30: for an HTTP 200 reply whose k data entries decode, OpenAI's
\* Generate returns k images, image i made from entry i with index i and
\* format "png", and the revised prompt of the first entry alone.
C30_OpenAIOrderAndPrompt ==
    (Ended200("openai") /\ reply.json /\ ~HasBad(reply.items)) =>
        /\ Succeeded
        /\ Len(genResult.images) = Len(reply.items)
        /\ \A k \in 1..Len(reply.items) :
              genResult.images[k] =
                  [index |-> k - 1, format |-> "png",
                   data |-> [from |-> "data", pos |-> k - 1]]
        /\ genResult.revisedPrompt =
              IF Len(reply.items) > 0 THEN RevisedPromptOf(0) ELSE NoPrompt

\* two entries: two images in the entries' order, the first entry's prompt
C30_Witness ==
    /\ Ended200("openai")
    /\ reply.items = <<"ok", "ok">>
    /\ Len(genResult.images) = 2
    /\ genResult.images[2].index = 1
    /\ genResult.revisedPrompt = RevisedPromptOf(0)

\* the command has encoded a request for its adapter
Encoded == pc = "encoded" /\ outbound # NoOutbound

\* r with its seed taken away when it has one, and set to 0 when it has none
SeedToggled(r) ==
    [r EXCEPT !.Seed = IF r.Seed.nil THEN SeedOf(0) ELSE NilSeed]

\* C29: seed absence and seed 0 stay apart from the flag to the outbound
\* request: the Request's seed is absent exactly when --seed was not given
\* and otherwise holds the flag's value; Stability and Replicate write a
\* seed field exactly when the Request's seed is present, writing 0 as "0";
\* so the request without the seed and the one with seed 0 are encoded
\* differently
C29_SeedAbsenceDistinguishable ==
    pc = "encoded" =>
        /\ req.Seed.nil <=> ~flags.seed.changed
        /\ ~req.Seed.nil => req.Seed.val = flags.seed.value
        /\ Encoded =>
              /\ outbound.seed.present <=> ~req.Seed.nil
              /\ (~req.Seed.nil /\ req.Seed.val = 0) =>
                     outbound.seed = Field("0")
              /\ (req.Seed.nil \/ req.Seed.val = 0) =>
                     Encode(caller, SeedToggled(req)) # outbound

C29_Witness ==
    /\ Encoded
    /\ flags.seed = Flag(TRUE, 0)
    /\ outbound.seed = Field("0")
    /\ Encode(caller, SeedToggled(req)).seed = Absent

\* the positions of the log where Generate did op
EventsOf(op) == {i \in 1..Len(events) : events[i].op = op}

\* the log entry at i holds a job record Generate decoded
Observed(i) == events[i].op \in {"submit", "fetch"} /\ events[i].ok

\* C21: after the submission, while the latest job record is neither
\* "succeeded" nor "failed", Generate alternates a wait of two seconds and
\* one fetch of the job record from the status URL the latest record gives;
\* it leaves the loop only on a terminal record; every download and every
\* Response comes after a "succeeded" record; a terminal submission reply
\* is followed by no fetch
C21_PollUntilTerminal ==
    /\ \A i \in EventsOf("wait") :
          /\ events[i].secs = PollInterval
          /\ i > 1 /\ Observed(i - 1)
          /\ ~Terminal(events[i - 1].got.status)
          /\ i < Len(events) => events[i + 1].op = "fetch"
    /\ \A i \in EventsOf("fetch") :
          /\ i > 2 /\ events[i - 1].op = "wait"
          /\ events[i].url = events[i - 2].got.get
    /\ \A i \in EventsOf("download") :
          \E j \in 1..(i - 1) :
              Observed(j) /\ events[j].got.status = "succeeded"
    /\ pc \in {"extract", "download"} => Terminal(prediction.status)
    /\ genResult.resp = "response" => prediction.status = "succeeded"
    /\ (events # << >> /\ Observed(1) /\ Terminal(events[1].got.status)) =>
          EventsOf("fetch") = {}

C21_Witness ==
    /\ Fetches = 2
    /\ events[3].url = "get/2"
    /\ events[5].url = "get/1"
    /\ genResult.resp = "response"

\* the output is one string, or a list that holds strings only
AllStrings(output) ==
    \/ output.kind = "string"
    \/ /\ output.kind = "list"
       /\ \A k \in 1..Len(output.list) : output.list[k].isString

\* the downloads made, in the order made
Downloads == SelectSeq(events, LAMBDA e : e.op = "download")

\* C22: when the job has succeeded with an output of k >= 1 URL strings (a
\* list of strings, or one string) and each of the k downloads succeeded,
\* Generate returns a Response with k images, image number i (from 0) having
\* Index i and the data downloaded from the i-th URL of the output
C22_OneImagePerURL ==
    LET out == prediction.output.list
        k   == Len(out)
    IN  ( /\ pc = "done"
          /\ prediction.status = "succeeded"
          /\ AllStrings(prediction.output)
          /\ k >= 1
          /\ Len(Downloads) = k
          /\ \A i \in 1..k : Downloads[i].ok ) =>
            /\ genResult.resp = "response"
            /\ Len(genResult.images) = k
            /\ \A i \in 1..k :
                  /\ Downloads[i].url = out[i].s
                  /\ genResult.images[i].index = i - 1
                  /\ genResult.images[i].data.from = out[i].s

C22_Witness ==
    /\ pc = "done"
    /\ prediction.output = [kind |-> "list", list |-> <<Str("u2"), Str("u1")>>]
    /\ Len(genResult.images) = 2
    /\ genResult.images[1].data.from = "u2"
    /\ genResult.images[2].index = 1

\* C23: once a job record with status "failed" is decoded, from the
\* submission or from a poll, nothing more is asked of the network, no image
\* is downloaded, and Generate returns the error "Replicate generation
\* failed" with the record's error text and no Response
C23_FailedJobSurfaced ==
    \A i \in 1..Len(events) :
        (Observed(i) /\ events[i].got.status = "failed") =>
            /\ i = Len(events)
            /\ EventsOf("download") = {}
            /\ genResult.resp # "response"
            /\ pc = "done" =>
                  genResult = Failed(WithText("Replicate generation failed",
                                              events[i].got.error))

C23_Witness ==
    /\ pc = "done"
    /\ events # << >>
    /\ events[Len(events)].op = "fetch"
    /\ events[Len(events)].got.status = "failed"
    /\ events[Len(events)].got.output # NoOutput
    /\ genResult.err.cause = "out of memory"

\* C24: a cancellation during a poll wait, the first or a later one, ends
\* Generate with the context's error and with no fetch or download after it;
\* and whenever the context was cancelled, Generate completes no further wait
C24_PollWaitCancellable ==
    /\ (cancelled /\ cancelAt.pc = "wait") =>
          /\ Len(events) = cancelAt.attempts
          /\ pc \in {"wait", "done"}
          /\ pc = "done" => genResult = Failed(CtxErr)
    /\ cancelled =>
          \A i \in EventsOf("wait") : i <= cancelAt.attempts

C24_Witness ==
    /\ cancelled
    /\ cancelAt.pc = "wait"
    /\ Fetches >= 1
    /\ pc = "done"
    /\ genResult = Failed(CtxErr)

\* the value of an option after the merge: the flag's when the command line
\* set the flag, the configured default when it did not
Merged(f, d) == IF f.changed THEN f.value ELSE d

\* C31: when runGenerate has built the request, every option with a
\* configured default (model, provider, size, quality, style, count, aspect
\* ratio, dry-run) has the flag's value if the flag was set and the
\* configured default if it was not
C31_FlagsOverDefaults ==
    pc = "encoded" =>
        /\ req.Model = Merged(flags.model, cfg.Model)
        /\ req.Size = Merged(flags.size, cfg.Size)
        /\ req.Quality = Merged(flags.quality, cfg.Quality)
        /\ req.Style = Merged(flags.style, cfg.Style)
        /\ req.Count = Merged(flags.count, cfg.Count)
        /\ req.AspectRatio = Merged(flags.aspectRatio, cfg.AspectRatio)
        /\ opts.dryRun = Merged(flags.dryRun, cfg.DryRun)
        /\ opts.providerName = Merged(flags.providerName, cfg.Provider)

\* C32: the timeout of an adapter's client is the one configured for its
\* provider, so a request fails with a deadline error exactly when it takes
\* longer than the configured timeout
C32_ConfiguredTimeoutApplied ==
    /\ \A a \in Adapters :
          clients[a].built => clients[a].timeout = settings[a].Timeout
    /\ exchange # NoExchange =>
          (exchange.outcome = "deadline exceeded"
              <=> exchange.took > settings[exchange.adapter].Timeout)

\* the statuses Replicate takes for success
SuccessStatuses == {StatusOK, StatusCreated}

\* C33: every response with a non-success status that reaches the adapter
\* (for the submission, a status fetch or a download) ends Generate with an
\* error: its body is not taken for a job record or for image bytes, nothing
\* follows it, and no Response is returned
C33_NonSuccessIsError ==
    \A i \in 1..Len(events) :
        (events[i].status # 0 /\ events[i].status \notin SuccessStatuses) =>
            /\ ~events[i].ok
            /\ i = Len(events)
            /\ pc = "done"
            /\ genResult.err # NoErr

\* C34: in every Response the Index of each image is its zero-based position
\* in the image list, so the indices are 0..n-1 without repetition
C34_IndexIsPosition ==
    genResult.resp = "response" =>
        \A k \in 1..Len(genResult.images) : genResult.images[k].index = k - 1

\* the Provider value the last Register call was given
Registered(op) == CHOOSE p \in Pool : p.id = op.pid

\* the model IDs Provider p advertises
Advertised(p) == {p.models[i] : i \in 1..Len(p.models)}

\* C35: a Register call that is accepted leaves every provider registered
\* before in place, adds the new one, and makes the model index map every ID
\* the new provider advertises to the new provider's name, also the IDs that
\* were indexed for another name before; the other entries stay
C35_LastWriteWins ==
    [][ (/\ lastOp'.op = "Register"
         /\ nops' = nops + 1
         /\ lastOp'.name \notin DOMAIN providers)
        => LET p == Registered(lastOp') IN
           /\ DOMAIN providers' = DOMAIN providers \cup {p.name}
           /\ providers'[p.name] = p
           /\ \A n \in DOMAIN providers : providers'[n] = providers[n]
           /\ DOMAIN models' = DOMAIN models \cup Advertised(p)
           /\ \A m \in Advertised(p) : models'[m] = p.name
           /\ \A m \in DOMAIN models \ Advertised(p) : models'[m] = models[m] ]_vars

\* "mirror" was registered after "openai": the ID both advertise now points
\* to "mirror", the other IDs of "openai" still point to it, both are
\* registered
C35_Witness ==
    /\ lastOp.op = "Register" /\ lastOp.pid = 4 /\ lastOp.err = NoErr
    /\ "openai" \in DOMAIN providers /\ "mirror" \in DOMAIN providers
    /\ providers["openai"].id = 1
    /\ models[<<"openai", "dall-e-3">>] = "mirror"
    /\ models[<<"openai", "dall-e-2">>] = "openai"

\* C36: whatever Register calls were made, accepted or turned down, every
\* entry of the model index names a provider of the provider map, and a
\* GetByModel call that returns no error returns an adapter
C36_IndexNamesRegistered ==
    /\ \A m \in DOMAIN models : models[m] \in DOMAIN providers
    /\ (lastOp.op = "GetByModel" /\ lastOp.err = NoErr) =>
          lastOp.res # NilProvider

\* an ID without provider prefix was resolved through the index
C36_Witness ==
    /\ lastOp.op = "GetByModel"
    /\ lastOp.model = <<"sdxl">>
    /\ lastOp.err = NoErr
    /\ lastOp.res = 4
    /\ models[<<"sdxl">>] = "mirror"

\* the model names put behind a provider name and a "/"
Suffixes == {<<"dall-e-3">>, <<"no-such", "model">>}

\* C40: on every registry, for every name p and model suffix m: if
\* GetByName(p) returns an adapter, GetByModel(p + "/" + m) returns the same
\* adapter, also when p spells a registered name in upper or mixed case
C40_LookupsAgree ==
    \A p \in NameQueries, m \in Suffixes :
        GetByName(providers, p).err = NoErr =>
            GetByModel(providers, models, <<p>> \o m) =
                GetByName(providers, p)

\* C38: Do makes at least one HTTP attempt before it returns, whatever
\* maxRetries the client was configured with (0 and negative values included),
\* and an error it returns with "max retries exceeded" wraps a non-nil cause.
C38_AtLeastOneAttempt ==
    DoReturned =>
        /\ Len(sent) >= 1
        /\ doResult.err.kind = "max retries exceeded" =>
              doResult.err.cause # NoErr.kind

\* what reader r has read of the registry
Seen(r) == readers[r]

\* C37: a Register call is atomic for the lookups that run beside it: what
\* GetByName, GetByModel, ListProviders or ListModels reads is the registry as
\* it was before or after a registration, and a lookup that reads the model
\* index finds there every model of every provider it saw registered.
C37_RegisterAtomic ==
    \A r \in Readers :
        Seen(r).pc \in {"index", "unlock", "done"} =>
            /\ \E c \in committed :
                  /\ c.providers = Seen(r).provs
                  /\ Seen(r).sawIndex => c.models = Seen(r).mods
            /\ Seen(r).sawIndex =>
                  \A n \in DOMAIN Seen(r).provs :
                      \A i \in 1..Len(Seen(r).provs[n].models) :
                          Seen(r).provs[n].models[i] \in DOMAIN Seen(r).mods

\* a GetByModel called while Register was writing the model index has
\* returned, and saw the provider of that call with its models
C37_Witness ==
    \E r \in Readers :
        /\ Seen(r).pc = "done"
        /\ Seen(r).kind = "GetByModel"
        /\ Seen(r).during = "index"
        /\ "mirror" \in DOMAIN Seen(r).provs
        /\ "openai" \in DOMAIN Seen(r).provs

\* Generate is in its poll loop
Polling == pc \in {"wait", "fetch"}

\* the last status fetch failed
FetchFailed ==
    /\ events # << >>
    /\ events[Len(events)].op = "fetch"
    /\ ~events[Len(events)].ok

\* C39: Replicate's Generate returns in the end on every run where the job
\* comes to report "succeeded" or "failed" or the context comes to be
\* cancelled, every HTTP exchange returning; and it leaves the poll loop only
\* on a terminal status, on a status fetch that failed, or on cancellation.
C39_GenerateReturns ==
    /\ (<>(cancelled \/ prediction.status \in {"succeeded", "failed"}))
          => <>(pc = "done")
    /\ [][(Polling /\ ~Polling') =>
             \/ prediction'.status \in {"succeeded", "failed"}
             \/ FetchFailed'
             \/ cancelled /\ genResult'.err = CtxErr]_vars

\* Generate has returned after a poll wait that ended on cancellation, and
\* after at least one status fetch that found the job still running
C39_Witness ==
    /\ pc = "done"
    /\ cancelled
    /\ genResult.err = CtxErr
    /\ Fetches >= 1
    /\ prediction.status \in PendingStatuses

====
